---- MODULE Spec2Model ----
(***************************************************************************)
(* Model of the scoring engine of the football performance dashboard:      *)
(*   app/utils/ml_model.py      calculate_injury_risk, predict_all_players,*)
(*                              get_team_risk_summary                      *)
(*   app/routers/analytics.py   get_training_load, get_insights            *)
(* and of the part of its HTTP API that registers users, logs them in and  *)
(* stores teams, players, sessions and stats:                              *)
(*   app/routers/auth.py        register, login, update_profile            *)
(*   app/utils/auth.py          password hashes, tokens, get_current_user  *)
(*   app/routers/players.py     get_players, get_player, create_player,    *)
(*                              update_player, delete_player               *)
(*   app/routers/teams.py       create_team, delete_team                   *)
(*   app/routers/sessions.py    create_session                             *)
(*   app/routers/stats.py       create_stats                               *)
(*   app/routers/schedule.py    create_schedule                            *)
(*   app/routers/admin.py       verify_admin, create_coach, list_coaches,  *)
(*                              get_coach, update_coach, delete_coach      *)
(*                                                                         *)
(* Numbers.  The Python code computes with floats.  Here every risk amount *)
(* is an exact integer number of hundredths of a point (5.0 points = 500), *)
(* a load score is an exact fraction <<num, den>>, and a value passed      *)
(* through round(x, 1) is an integer number of tenths (43.0 = 430).        *)
(* On every input of MetricsInputs and PlayerShapes the float code returns *)
(* exactly the values computed here.  Outside these sets a float sum can   *)
(* fall a few units in the last place short of the decimal sum: minutes    *)
(* 692, intensity 42, sprints 54, 3 previous injuries and age 33 add up to *)
(* 29.999999999999996, reported as 30.0 with level "low".  For the load    *)
(* score the float and the exact fraction are on the same side of 50, 70   *)
(* and 85 for all days in 1..365; they differ only in the direction in     *)
(* which a value half way between two tenths is rounded (see RoundTo).     *)
(***************************************************************************)
EXTENDS Integers, Sequences, FiniteSets, TLC

VARIABLES
    THRESHOLDS,      \* ml_model.THRESHOLDS, a module-level (mutable) dict
    MODEL_WEIGHTS,   \* ml_model.MODEL_WEIGHTS, a module-level (mutable) dict
    DEMO_PLAYERS,    \* ml_model.DEMO_PLAYERS, a module-level (mutable) list
    player_metrics,  \* argument of calculate_injury_risk: a dict, modelled as
                     \* a function whose domain is the set of keys present
    age,             \* argument age of calculate_injury_risk: <<a>>, or <<>>
                     \* when the caller does not pass it
    total_risk,      \* local total_risk of calculate_injury_risk at return
    risk_result,     \* value returned by calculate_injury_risk
    history,         \* the calls of calculate_injury_risk made so far, each
                     \* with its arguments and the value it returned
    players,         \* argument of predict_all_players: None or <<list>>
    predictions,     \* value returned by predict_all_players
    results,         \* get_training_load: rows returned by the query
    days,            \* get_training_load: query parameter days
    load_score,      \* get_training_load: local load_score of each row
    load_response,   \* get_training_load: the response
    summary,         \* value returned by get_team_risk_summary
    insights,        \* get_insights: the response
    users,           \* table users: the rows in the order of their ids
    teams,           \* table teams: the rows in the order of their ids
    db_players,      \* table players: the rows in the order of their ids
    training_sessions, \* table training_sessions, in the order of the ids
    session_stats,   \* table session_stats, in the order of the ids
    match_schedule,  \* table match_schedule, in the order of the ids
    tokens,          \* the access tokens issued by login so far
    registered,      \* history: for each row of users, the password the
                     \* user gave when the row was created
    issued,          \* history: <<token, id>> for every token that login
                     \* issued, with the id of the user it was issued to
    request,         \* the HTTP request being handled
    response,        \* the HTTP response to the last request
    pc               \* position of the caller

constVars == <<THRESHOLDS, MODEL_WEIGHTS, DEMO_PLAYERS>>
riskVars == <<player_metrics, age, total_risk, risk_result, history>>
predictVars == <<players, predictions>>
loadVars == <<results, days, load_score, load_response>>
storeVars == <<teams, db_players, training_sessions, session_stats,
               match_schedule>>
apiVars == <<users, storeVars, tokens, registered, issued, request, response>>
extVars == <<summary, insights, apiVars>>
vars == <<THRESHOLDS, MODEL_WEIGHTS, DEMO_PLAYERS, player_metrics, age,
          total_risk, risk_result, history, players, predictions, results,
          days, load_score, load_response, summary, insights, users,
          teams, db_players, training_sessions, session_stats,
          match_schedule, tokens, registered, issued, request, response, pc>>

\* No value computed yet.
NoResult == [risk_level |-> "none"]
NoTotal == -1
NoResponse == [status_code |-> 0]
NoPredictions == << [risk_level |-> "none"] >>
NoSummary == [team_health_status |-> "none"]
NoRequest == [method |-> "none"]

\* the variables of the summarizer, of get_insights and of the HTTP API before
\* anything was computed, stored or requested
InitExt ==
    /\ summary = NoSummary
    /\ insights = NoResponse
    /\ users = <<>>
    /\ teams = <<>>
    /\ db_players = <<>>
    /\ training_sessions = <<>>
    /\ session_stats = <<>>
    /\ match_schedule = <<>>
    /\ tokens = {}
    /\ registered = <<>>
    /\ issued = {}
    /\ request = NoRequest
    /\ response = NoResponse

(***************************************************************************)
(* Module constants of ml_model.py                                         *)
(***************************************************************************)
THRESHOLDS_INIT ==
    [weekly_training_minutes_high    |-> 600,
     weekly_training_minutes_optimal |-> 400,
     high_intensity_percentage       |-> 40,
     min_rest_days_per_week          |-> 2,
     age_risk_threshold              |-> 30,
     max_heart_rate_warning          |-> 185,
     sprint_count_high               |-> 50]

\* weights in hundredths
MODEL_WEIGHTS_INIT ==
    [high_training_load   |-> 25,
     high_intensity_ratio |-> 20,
     insufficient_rest    |-> 20,
     age_factor           |-> 15,
     previous_injuries    |-> 15,
     fatigue_accumulation |-> 5]

(***************************************************************************)
(* Python helpers                                                          *)
(***************************************************************************)
Min(a, b) == IF a <= b THEN a ELSE b
Max(a, b) == IF a >= b THEN a ELSE b

\* dict.get(key, default)
Get(d, key, default) == IF key \in DOMAIN d THEN d[key] ELSE default

\* A nullable value (SQL NULL, Python None) is <<>>, a value v is <<v>>.
None == <<>>
Some(v) == <<v>>

\* d.get(key): None when the key is missing
GetOpt(d, key) == IF key \in DOMAIN d THEN Some(d[key]) ELSE None

\* x or 0
OrZero(x) == IF x = None THEN 0 ELSE x[1]

\* round(num/den, ndigits) in units of 1/scale, scale = 10^ndigits.  A value
\* exactly half way between two results goes up when tie = 1 and down when
\* tie = 0: which of the two the float code produces depends on the binary
\* representation of the value.
RoundTo(num, den, scale, tie) ==
    LET t == num * scale
        q == t \div den
        r == t % den
    IN  IF 2 * r > den THEN q + 1
        ELSE IF 2 * r < den THEN q
        ELSE q + tie

\* round(num/den, 1) in tenths
Round1(num, den, tie) == RoundTo(num, den, 10, tie)

RECURSIVE InsertDescBeforeEqual(_, _, _)
\* InsertDesc that puts the index in front of the indices with an equal key
InsertDescBeforeEqual(placed, keys, i) ==
    IF placed = <<>> THEN <<i>>
    ELSE IF keys[Head(placed)] > keys[i]
         THEN <<Head(placed)>> \o InsertDescBeforeEqual(Tail(placed), keys, i)
         ELSE <<i>> \o placed

RECURSIVE InsertDesc(_, _, _)
\* list.sort(key=..., reverse=True), on the indices of the list: the index i
\* goes behind every index already placed whose key is not smaller.
InsertDesc(placed, keys, i) ==
    IF placed = <<>> THEN <<i>>
    ELSE IF keys[Head(placed)] >= keys[i]
         THEN <<Head(placed)>> \o InsertDesc(Tail(placed), keys, i)
         ELSE <<i>> \o placed

RECURSIVE SortedIndices(_, _)
\* the indices 1..n in the order the sort leaves them
SortedIndices(keys, n) ==
    IF n = 0 THEN <<>>
    ELSE InsertDesc(SortedIndices(keys, n - 1), keys, n)

\* the list sorted by keys[i] descending
SortDesc(list, keys) ==
    LET order == SortedIndices(keys, Len(list))
    IN  [k \in 1..Len(list) |-> list[order[k]]]

\* round(x, 1) of a risk amount x given in hundredths.  Every risk amount the
\* scorer produces from integer metrics is a multiple of 0.1, so no amount is
\* half way between two tenths and the tie rule is never used.
RoundRisk(x) == Round1(x, 100, 0)

(***************************************************************************)
(* calculate_injury_risk: the eight factors.  Each operator returns the    *)
(* amount added to total_risk (hundredths) and the entries appended to     *)
(* risk_factors (none or one).                                             *)
(***************************************************************************)
NoFactor == [risk |-> 0, entries |-> <<>>]

Entry(name, descr, risk, sev) ==
    [factor |-> name, description |-> descr,
     contribution |-> RoundRisk(risk), severity |-> sev]

\* TrainingLoadFactor with the trigger weekly_minutes >= 600
TrainingLoadFactorAtThreshold(weekly_minutes) ==
    IF weekly_minutes >= THRESHOLDS.weekly_training_minutes_high
    THEN LET load_risk ==
                 Min(2500, (weekly_minutes
                            - THRESHOLDS.weekly_training_minutes_high) * 10)
         IN  [risk |-> load_risk,
              entries |-> << [factor |-> "High Training Load",
                              description |->
                                  <<weekly_minutes,
                                    THRESHOLDS.weekly_training_minutes_high>>,
                              contribution |-> Round1(load_risk, 100, 0),
                              severity |-> IF load_risk > 1500 THEN "high"
                                                               ELSE "medium"]
                          >>]
    ELSE [risk |-> 0, entries |-> <<>>]

\* 1. Training Load Risk: min(25, (weekly_minutes - 600) / 10)
TrainingLoadFactor(weekly_minutes) ==
    IF weekly_minutes > THRESHOLDS.weekly_training_minutes_high
    THEN LET load_risk ==
                 Min(2500, (weekly_minutes
                            - THRESHOLDS.weekly_training_minutes_high) * 10)
         IN  [risk |-> load_risk,
              entries |-> << Entry("High Training Load",
                                   <<weekly_minutes,
                                     THRESHOLDS.weekly_training_minutes_high>>,
                                   load_risk,
                                   IF load_risk > 1500 THEN "high"
                                                       ELSE "medium") >>]
    ELSE NoFactor

\* 2. High Intensity Ratio Risk: min(20, (intensity_pct - 40) * 0.8)
IntensityFactor(intensity_pct) ==
    IF intensity_pct > THRESHOLDS.high_intensity_percentage
    THEN LET intensity_risk ==
                 Min(2000, (intensity_pct
                            - THRESHOLDS.high_intensity_percentage) * 80)
         IN  [risk |-> intensity_risk,
              entries |-> << Entry("High Intensity Overload",
                                   <<intensity_pct,
                                     THRESHOLDS.high_intensity_percentage>>,
                                   intensity_risk,
                                   IF intensity_risk > 1200 THEN "high"
                                                            ELSE "medium") >>]
    ELSE NoFactor

\* 3. Insufficient Rest Risk: (2 - rest_days) * 10
RestFactor(rest_days) ==
    IF rest_days < THRESHOLDS.min_rest_days_per_week
    THEN LET rest_risk ==
                 (THRESHOLDS.min_rest_days_per_week - rest_days) * 1000
         IN  [risk |-> rest_risk,
              entries |-> << Entry("Insufficient Recovery",
                                   <<rest_days,
                                     THRESHOLDS.min_rest_days_per_week>>,
                                   rest_risk,
                                   IF rest_days = 0 THEN "high"
                                                    ELSE "medium") >>]
    ELSE NoFactor

\* 4. Age Factor Risk: min(15, (age - 30) * 2)
AgeFactor(a) ==
    IF a > THRESHOLDS.age_risk_threshold
    THEN LET age_risk ==
                 Min(1500, (a - THRESHOLDS.age_risk_threshold) * 200)
         IN  [risk |-> age_risk,
              entries |-> << Entry("Age-Related Risk",
                                   <<THRESHOLDS.age_risk_threshold>>,
                                   age_risk, "medium") >>]
    ELSE NoFactor

\* 5. Previous Injuries Risk: min(15, prev_injuries * 4)
InjuryHistoryFactor(prev_injuries) ==
    IF prev_injuries > 0
    THEN LET injury_history_risk == Min(1500, prev_injuries * 400)
         IN  [risk |-> injury_history_risk,
              entries |-> << Entry("Injury History", <<prev_injuries>>,
                                   injury_history_risk,
                                   IF prev_injuries >= 3 THEN "high"
                                                         ELSE "medium") >>]
    ELSE NoFactor

\* 6. Recent Injury Risk: max(0, (30 - days_since_injury) * 0.5)
RecentInjuryFactor(days_since_injury) ==
    IF days_since_injury < 30
    THEN LET recent_injury_risk == Max(0, (30 - days_since_injury) * 50)
         IN  [risk |-> recent_injury_risk,
              entries |-> << Entry("Recent Injury", <<days_since_injury>>,
                                   recent_injury_risk, "high") >>]
    ELSE NoFactor

\* 7. Fatigue Accumulation Risk: (fatigue - 7) * 5
FatigueFactor(fatigue) ==
    IF fatigue > 7
    THEN LET fatigue_risk == (fatigue - 7) * 500
         IN  [risk |-> fatigue_risk,
              entries |-> << Entry("Accumulated Fatigue", <<fatigue>>,
                                   fatigue_risk,
                                   IF fatigue >= 9 THEN "high"
                                                   ELSE "medium") >>]
    ELSE NoFactor

\* 8. Sprint Overload Risk: min(10, (sprints - 50) * 0.3)
SprintFactor(sprints) ==
    IF sprints > THRESHOLDS.sprint_count_high
    THEN LET sprint_risk ==
                 Min(1000, (sprints - THRESHOLDS.sprint_count_high) * 30)
         IN  [risk |-> sprint_risk,
              entries |-> << Entry("Sprint Overload",
                                   <<sprints, THRESHOLDS.sprint_count_high>>,
                                   sprint_risk, "medium") >>]
    ELSE NoFactor

(***************************************************************************)
(* calculate_injury_risk(player_metrics, age=25)                           *)
(***************************************************************************)
MetricKeys == {"weekly_training_minutes", "high_intensity_percentage",
               "rest_days_last_week", "previous_injuries_count",
               "days_since_last_injury", "fatigue_score",
               "sprint_count_weekly"}

\* The value of the parameter age: 25 when the caller does not pass it.
AgeArg(a) == IF a = <<>> THEN 25 ELSE a[1]

\* FactorsInOrder with 8 as the default of fatigue_score
FactorsInOrderFatigueDefault(pm, a) ==
    << TrainingLoadFactor(Get(pm, "weekly_training_minutes", 400)),
       IntensityFactor(Get(pm, "high_intensity_percentage", 30)),
       RestFactor(Get(pm, "rest_days_last_week", 2)),
       AgeFactor(AgeArg(a)),
       InjuryHistoryFactor(Get(pm, "previous_injuries_count", 0)),
       RecentInjuryFactor(Get(pm, "days_since_last_injury", 365)),
       FatigueFactor(Get(pm, "fatigue_score", 8)),
       SprintFactor(Get(pm, "sprint_count_weekly", 30)) >>

\* The eight factors in evaluation order, each read with its default.
FactorsInOrder(pm, a) ==
    << TrainingLoadFactor(Get(pm, "weekly_training_minutes", 400)),
       IntensityFactor(Get(pm, "high_intensity_percentage", 30)),
       RestFactor(Get(pm, "rest_days_last_week", 2)),
       AgeFactor(AgeArg(a)),
       InjuryHistoryFactor(Get(pm, "previous_injuries_count", 0)),
       RecentInjuryFactor(Get(pm, "days_since_last_injury", 365)),
       FatigueFactor(Get(pm, "fatigue_score", 5)),
       SprintFactor(Get(pm, "sprint_count_weekly", 30)) >>

RECURSIVE SumRisk(_, _)
\* total_risk after the first n factors (total_risk = 0; total_risk += ...)
SumRisk(fs, n) == IF n = 0 THEN 0 ELSE SumRisk(fs, n - 1) + fs[n].risk

RECURSIVE AppendEntriesInFront(_, _)
\* AppendEntries with each entry put in front of the list
AppendEntriesInFront(fs, n) ==
    IF n = 0 THEN <<>> ELSE fs[n].entries \o AppendEntriesInFront(fs, n - 1)

RECURSIVE AppendEntries(_, _)
\* risk_factors after the first n factors (risk_factors = []; .append(...))
AppendEntries(fs, n) ==
    IF n = 0 THEN <<>> ELSE AppendEntries(fs, n - 1) \o fs[n].entries

\* CapTotal without the cap
CapTotalMissing(total) == total

\* total_risk = min(100, total_risk)
CapTotal(total) == Min(10000, total)

\* The local total_risk when the function returns (hundredths).
TotalRiskOf(pm, a) == CapTotal(SumRisk(FactorsInOrder(pm, a), 8))

\* RiskLevel with total > 70 for "critical"
RiskLevelStrict(total) ==
    IF total > 7000 THEN "critical"
    ELSE IF total >= 5000 THEN "high"
    ELSE IF total >= 3000 THEN "moderate"
    ELSE "low"

\* Determine risk level
RiskLevel(total) ==
    IF total >= 7000 THEN "critical"
    ELSE IF total >= 5000 THEN "high"
    ELSE IF total >= 3000 THEN "moderate"
    ELSE "low"

Recommendation(total) ==
    IF total >= 7000
    THEN "IMMEDIATE REST REQUIRED - High probability of injury within 7 days"
    ELSE IF total >= 5000
    THEN "Reduce training intensity by 40% and add extra rest day"
    ELSE IF total >= 3000
    THEN "Monitor closely and consider reducing high-intensity work"
    ELSE "Continue current training plan - athlete is in good condition"

calculate_injury_risk(pm, a) ==
    LET total == TotalRiskOf(pm, a)
    IN  [risk_score     |-> RoundRisk(total),
         risk_level     |-> RiskLevel(total),
         recommendation |-> Recommendation(total),
         risk_factors   |-> AppendEntries(FactorsInOrder(pm, a), 8),
         metrics_analyzed |->
             [weekly_training_minutes   |->
                  Get(pm, "weekly_training_minutes", 400),
              high_intensity_percentage |->
                  Get(pm, "high_intensity_percentage", 30),
              rest_days    |-> Get(pm, "rest_days_last_week", 2),
              fatigue_score |-> Get(pm, "fatigue_score", 5),
              sprint_count |-> Get(pm, "sprint_count_weekly", 30),
              age          |-> AgeArg(a)]]

(***************************************************************************)
(* predict_all_players(players=None)                                       *)
(***************************************************************************)
\* the entry appended to results for one player
PredictionOf(player) ==
    [player_id   |-> GetOpt(player, "id"),
     player_name |-> GetOpt(player, "name"),
     position    |-> GetOpt(player, "position"),
     age         |-> GetOpt(player, "age")]
    @@ calculate_injury_risk(Get(player, "metrics", <<>>),
                             <<Get(player, "age", 25)>>)

\* results after the loop and results.sort(key=risk_score, reverse=True)
predict_all_players(list) ==
    LET res  == [i \in 1..Len(list) |-> PredictionOf(list[i])]
        keys == [i \in 1..Len(list) |-> res[i].risk_score]
    IN  SortDesc(res, keys)

(***************************************************************************)
(* generate_synthetic_players(count)                                       *)
(***************************************************************************)
\* number of players generated; the code generates 20
SyntheticCount == 2

\* Some of the players random can produce: age in 18..36, minutes in
\* 300..700, intensity in 20..55, rest days in 0..3, sprints in 20..80,
\* previous injuries in 0..4, days since injury in 7..500, fatigue in 1..10.
SyntheticPlayerVals ==
    { [name |-> "Marcus Silva", position |-> "Defender", age |-> 22,
       metrics |-> [weekly_training_minutes |-> 400,
                    high_intensity_percentage |-> 30,
                    rest_days_last_week |-> 2,
                    sprint_count_weekly |-> 30,
                    previous_injuries_count |-> 0,
                    days_since_last_injury |-> 365,
                    fatigue_score |-> 5]],
      [name |-> "Luka Garcia", position |-> "Forward", age |-> 34,
       metrics |-> [weekly_training_minutes |-> 700,
                    high_intensity_percentage |-> 55,
                    rest_days_last_week |-> 0,
                    sprint_count_weekly |-> 80,
                    previous_injuries_count |-> 3,
                    days_since_last_injury |-> 10,
                    fatigue_score |-> 9]] }

\* the lists generate_synthetic_players(SyntheticCount) can return
SyntheticLists ==
    { [i \in 1..SyntheticCount |-> [id |-> i] @@ ps[i]] :
      ps \in [1..SyntheticCount -> SyntheticPlayerVals] }

\* one of them
DemoList == CHOOSE l \in SyntheticLists : TRUE

(***************************************************************************)
(* Inputs of the risk scorer                                               *)
(***************************************************************************)
\* largest number of previous injuries tried
MaxInjuries == 4

\* marks, in the sets below, a key that is left out of the dict
Missing == -1

MinutesVals   == {Missing, 600, 601, 650, 1200}
IntensityVals == {Missing, 40, 50, 100}
RestVals      == {Missing, 0, 1, 2}
AgeVals       == {<<>>, <<30>>, <<32>>, <<45>>}
InjuryVals    == {Missing} \cup (0..MaxInjuries)
SinceVals     == {Missing, 0, 29, 30, 200}
FatigueVals   == {Missing, 7, 8, 10}
SprintVals    == {Missing, 50, 60, 90}

\* the dict holding the keys of r whose value is not Missing
DictOf(r) == [k \in {x \in DOMAIN r : r[x] # Missing} |-> r[k]]

MetricsInputs ==
    { DictOf([weekly_training_minutes   |-> wm,
              high_intensity_percentage |-> ip,
              rest_days_last_week       |-> rd,
              previous_injuries_count   |-> pi,
              days_since_last_injury    |-> ds,
              fatigue_score             |-> fs,
              sprint_count_weekly       |-> sc]) :
      wm \in MinutesVals, ip \in IntensityVals, rd \in RestVals,
      pi \in InjuryVals, ds \in SinceVals, fs \in FatigueVals,
      sc \in SprintVals }

(***************************************************************************)
(* Specification of one scoring call                                       *)
(***************************************************************************)
\* the module constants after import; DEMO_PLAYERS is one of the lists
\* generate_synthetic_players can return
InitConstants ==
    /\ THRESHOLDS = THRESHOLDS_INIT
    /\ MODEL_WEIGHTS = MODEL_WEIGHTS_INIT
    /\ DEMO_PLAYERS = DemoList

InitRisk ==
    /\ InitConstants
    /\ InitExt
    /\ player_metrics \in MetricsInputs
    /\ age \in AgeVals
    /\ total_risk = NoTotal
    /\ risk_result = NoResult
    /\ history = <<>>
    /\ players = None
    /\ predictions = NoPredictions
    /\ results = <<>>
    /\ days = 7
    /\ load_score = <<>>
    /\ load_response = NoResponse
    /\ pc = "risk_call"

\* CalculateInjuryRisk that stores the minutes it read in THRESHOLDS
CalculateInjuryRiskWritesThreshold ==
    /\ pc = "risk_call"
    /\ total_risk' = TotalRiskOf(player_metrics, age)
    /\ risk_result' = calculate_injury_risk(player_metrics, age)
    /\ history' = Append(history,
                         [player_metrics |-> player_metrics, age |-> age,
                          result |-> calculate_injury_risk(player_metrics,
                                                           age)])
    /\ THRESHOLDS' =
          [THRESHOLDS EXCEPT !.weekly_training_minutes_high =
              Get(player_metrics, "weekly_training_minutes", 400)]
    /\ pc' = "risk_done"
    /\ UNCHANGED <<extVars, MODEL_WEIGHTS, DEMO_PLAYERS, player_metrics, age,
                   predictVars, loadVars>>

\* risk_result = calculate_injury_risk(player_metrics, age)
CalculateInjuryRisk ==
    /\ pc = "risk_call"
    /\ total_risk' = TotalRiskOf(player_metrics, age)
    /\ risk_result' = calculate_injury_risk(player_metrics, age)
    /\ history' = Append(history,
                         [player_metrics |-> player_metrics, age |-> age,
                          result |-> calculate_injury_risk(player_metrics,
                                                           age)])
    /\ pc' = "risk_done"
    /\ UNCHANGED <<extVars, constVars, player_metrics, age, predictVars, loadVars>>

NextRisk == CalculateInjuryRisk

SpecRisk == InitRisk /\ [][NextRisk]_vars

(***************************************************************************)
(* get_training_load (GET /analytics/training-load)                        *)
(***************************************************************************)
\* LoadScore without min(100, ...)
LoadScoreUncapped(total_mins, d) == <<total_mins * 100, d * 90>>

\* LoadScore that starts again from 0 above 100
LoadScoreWrapped(total_mins, d) ==
    <<(total_mins * 100) % (100 * d * 90 + 1), d * 90>>

\* load_score = min(100, (total_mins / (days * 90)) * 100), as a fraction
LoadScore(total_mins, d) ==
    LET num == total_mins * 100
        den == d * 90
    IN  IF num > 100 * den THEN <<100, 1>> ELSE <<num, den>>

\* ScoreAbove with >= for >
ScoreAtLeast(score, bound) == score[1] >= bound * score[2]

\* load_score > bound
ScoreAbove(score, bound) == score[1] > bound * score[2]

\* Determine recommendation
LoadStatus(score) ==
    IF ScoreAbove(score, 85) THEN "warning"
    ELSE IF ScoreAbove(score, 70) THEN "optimal"
    ELSE IF ScoreAbove(score, 50) THEN "moderate"
    ELSE "low"

LoadRecommendation(score) ==
    IF ScoreAbove(score, 85) THEN "High load - Consider rest day"
    ELSE IF ScoreAbove(score, 70) THEN "Optimal training load"
    ELSE IF ScoreAbove(score, 50) THEN "Moderate load - Can increase intensity"
    ELSE "Low load - Increase training volume"

\* The entry appended to players_load for one row of the query.  Averages
\* and speeds are given in thousandths.
PlayerLoad(result, d, tie, stat_tie) ==
    LET total_mins == OrZero(result.total_minutes)
        avg_dist   == OrZero(result.avg_distance)
        score      == LoadScore(total_mins, d)
    IN  [player_id       |-> result.id,
         session_count   |-> result.session_count,
         total_minutes   |-> total_mins,
         avg_distance_km |-> IF avg_dist # 0
                             THEN RoundTo(avg_dist, 1000, 100, stat_tie)
                             ELSE 0,
         max_speed_kmh   |-> RoundTo(OrZero(result.max_speed), 1000, 100,
                                     stat_tie),
         avg_heart_rate  |-> RoundTo(OrZero(result.avg_hr), 1000, 1, stat_tie),
         load_score      |-> Round1(score[1], score[2], tie),
         status          |-> LoadStatus(score),
         recommendation  |-> LoadRecommendation(score)]

\* the response for valid days; ties[i] and stat_ties[i] are the rounding
\* directions of the load score and of the other aggregates of row i
get_training_load(rows, d, ties, stat_ties) ==
    LET players_load ==
            [i \in 1..Len(rows) |->
                PlayerLoad(rows[i], d, ties[i], stat_ties[i])]
        keys == [i \in 1..Len(rows) |-> players_load[i].load_score]
    IN  [status_code   |-> 200,
         period_days   |-> d,
         total_players |-> Len(players_load),
         players       |-> SortDesc(players_load, keys)]

\* ValidDays without the upper limit
ValidDaysUnbounded(d) == d >= 1

\* days: int = Query(7, ge=1, le=365)
ValidDays(d) == d >= 1 /\ d <= 365

(***************************************************************************)
(* Inputs of the training-load endpoint                                    *)
(***************************************************************************)
\* largest number of rows the query returns
MaxRows == 2

DaysVals == {0, 7, 8, 366}

\* sums of duration_minutes: around 50%, 70%, 85% and 100% of 630 and 720
\* minutes, and totals whose score is half way between two tenths (207 and
\* 441 minutes in 8 days are 28.75 and 61.25)
TotalMinutesVals ==
    {None} \cup {Some(m) : m \in {0, 207, 315, 316, 441, 536, 612, 630,
                                   1000}}

\* aggregates over session_stats: NULL when the sessions have no stats
StatsVals ==
    { [avg_distance |-> None, max_speed |-> None, avg_hr |-> None],
      [avg_distance |-> Some(5125), max_speed |-> Some(28400),
       avg_hr |-> Some(152500)] }

RowOf(i, tm, st) ==
    [id |-> i, session_count |-> 1, total_minutes |-> tm,
     avg_distance |-> st.avg_distance, max_speed |-> st.max_speed,
     avg_hr |-> st.avg_hr]

\* query results of n rows, one per player id 1..n
RowsOfLen(n) ==
    { [i \in 1..n |-> RowOf(i, tms[i], sts[i])] :
      tms \in [1..n -> TotalMinutesVals], sts \in [1..n -> StatsVals] }

RowsInputs == UNION { RowsOfLen(n) : n \in 0..MaxRows }

\* Rounding is a function of the value rounded: rows with the same total
\* round their load score the same way.
TieChoices(rows) ==
    { t \in [1..Len(rows) -> {0, 1}] :
        \A i, j \in 1..Len(rows) :
            OrZero(rows[i].total_minutes) = OrZero(rows[j].total_minutes)
               => t[i] = t[j] }

\* ... and rows with the same averages round them the same way
StatTieChoices(rows) ==
    { t \in [1..Len(rows) -> {0, 1}] :
        \A i, j \in 1..Len(rows) :
            (/\ rows[i].avg_distance = rows[j].avg_distance
             /\ rows[i].max_speed = rows[j].max_speed
             /\ rows[i].avg_hr = rows[j].avg_hr) => t[i] = t[j] }

(***************************************************************************)
(* Specification of one training-load request                              *)
(***************************************************************************)
InitLoad ==
    /\ InitConstants
    /\ InitExt
    /\ player_metrics = <<>>
    /\ age = <<>>
    /\ total_risk = NoTotal
    /\ risk_result = NoResult
    /\ history = <<>>
    /\ players = None
    /\ predictions = NoPredictions
    /\ results \in RowsInputs
    /\ days \in DaysVals
    /\ load_score = <<>>
    /\ load_response = NoResponse
    /\ pc = "load_call"

\* the request is refused by the validation of the query parameters
GetTrainingLoadInvalid ==
    /\ pc = "load_call"
    /\ ~ValidDays(days)
    /\ load_response' = [status_code |-> 422]
    /\ pc' = "load_done"
    /\ UNCHANGED <<extVars, constVars, riskVars, predictVars, results, days,
                   load_score>>

\* load_response = get_training_load(days)
GetTrainingLoad ==
    /\ pc = "load_call"
    /\ ValidDays(days)
    /\ \E ties \in TieChoices(results),
          stat_ties \in StatTieChoices(results) :
           load_response' = get_training_load(results, days, ties, stat_ties)
    /\ load_score' = [i \in 1..Len(results) |->
                         LoadScore(OrZero(results[i].total_minutes), days)]
    /\ pc' = "load_done"
    /\ UNCHANGED <<extVars, constVars, riskVars, predictVars, results, days>>

NextLoad == GetTrainingLoad \/ GetTrainingLoadInvalid

SpecLoad == InitLoad /\ [][NextLoad]_vars

\* either call
InitScore == InitRisk \/ InitLoad
NextScore == CalculateInjuryRisk \/ GetTrainingLoad \/ GetTrainingLoadInvalid
SpecScore == InitScore /\ [][NextScore]_vars

(***************************************************************************)
(* Training-load requests whose scores lie just above a status threshold:  *)
(* 995 minutes in 13 days are 85.04, and in 30 days 2296 minutes are      *)
(* 85.037, 1891 minutes 70.037 and 1351 minutes 50.037; 994 minutes in 13  *)
(* days, 1890 and 1350 minutes in 30 days lie at or below the thresholds.  *)
(***************************************************************************)
ReportDaysVals == {13, 30, 366}

ReportMinutesVals ==
    { Some(m) : m \in {994, 995, 1350, 1351, 1890, 1891, 2296} }

ReportRowsOfLen(n) ==
    { [i \in 1..n |-> RowOf(i, tms[i], [avg_distance |-> None, max_speed |-> None,
                            avg_hr |-> None])] :
      tms \in [1..n -> ReportMinutesVals] }

ReportRowsInputs == UNION { ReportRowsOfLen(n) : n \in 0..MaxRows }

InitLoadReport ==
    /\ InitConstants
    /\ InitExt
    /\ player_metrics = <<>>
    /\ age = <<>>
    /\ total_risk = NoTotal
    /\ risk_result = NoResult
    /\ history = <<>>
    /\ players = None
    /\ predictions = NoPredictions
    /\ results \in ReportRowsInputs
    /\ days \in ReportDaysVals
    /\ load_score = <<>>
    /\ load_response = NoResponse
    /\ pc = "load_call"

\* either call, the training load on the totals above
InitReport == InitRisk \/ InitLoadReport
SpecReport == InitReport /\ [][NextScore]_vars

(***************************************************************************)
(* Inputs of predict_all_players                                           *)
(***************************************************************************)
\* longest list of players passed to predict_all_players
MaxPlayers == 3
\* largest number of direct calls of calculate_injury_risk in one run
MaxCalls == 2

\* the athlete of the documented scenario: risk score 43.0
ScenarioMetrics ==
    [weekly_training_minutes |-> 650, high_intensity_percentage |-> 50,
     rest_days_last_week |-> 1, previous_injuries_count |-> 2,
     days_since_last_injury |-> 200, fatigue_score |-> 8,
     sprint_count_weekly |-> 60]

\* shapes of player dicts; "id" is added by PlayersOfLen where has_id holds
PlayerShapes ==
    { \* {}
      [has_id |-> FALSE, fields |-> <<>>],
      \* {"id": i}
      [has_id |-> TRUE, fields |-> <<>>],
      \* {"id": i, "name": ..., "metrics": {}}
      [has_id |-> TRUE,
       fields |-> [name |-> "Toni Lopez", metrics |-> <<>>]],
      \* the scenario athlete
      [has_id |-> TRUE,
       fields |-> [name |-> "Jude Moore", position |-> "Midfielder",
                   age |-> 32, metrics |-> ScenarioMetrics]],
      \* an overloaded athlete: risk score 75.0
      [has_id |-> TRUE,
       fields |-> [name |-> "Phil Brown", age |-> 45,
                   metrics |-> [weekly_training_minutes |-> 1200,
                                high_intensity_percentage |-> 100,
                                rest_days_last_week |-> 1,
                                fatigue_score |-> 8]]] }

PlayerOf(i, shape) ==
    IF shape.has_id THEN [id |-> i] @@ shape.fields ELSE shape.fields

PlayersOfLen(n) ==
    { [i \in 1..n |-> PlayerOf(i, sh[i])] : sh \in [1..n -> PlayerShapes] }

PlayersInputs ==
    {None} \cup { Some(l) : l \in UNION { PlayersOfLen(n) : n \in 0..MaxPlayers } }

(***************************************************************************)
(* Specification of a caller that scores players one by one and as a list  *)
(***************************************************************************)
InitEngine ==
    /\ InitConstants
    /\ InitExt
    /\ player_metrics = <<>>
    /\ age = <<>>
    /\ total_risk = NoTotal
    /\ risk_result = NoResult
    /\ history = <<>>
    /\ players \in PlayersInputs
    /\ predictions = NoPredictions
    /\ results = <<>>
    /\ days = 7
    /\ load_score = <<>>
    /\ load_response = NoResponse
    /\ pc = "idle"

\* the list the caller takes its players from
ListOf(arg) == IF arg = None THEN DEMO_PLAYERS ELSE arg[1]

\* the caller prepares calculate_injury_risk(player["metrics"], player["age"])
\* for one player of the list, passing age only when the player has one
ChooseArgs ==
    /\ pc \in {"idle", "risk_done"}
    /\ Len(history) < MaxCalls
    /\ \E i \in 1..Len(ListOf(players)) :
          LET player == ListOf(players)[i]
          IN  /\ player_metrics' = Get(player, "metrics", <<>>)
              /\ age' = GetOpt(player, "age")
    /\ pc' = "risk_call"
    /\ UNCHANGED <<extVars, constVars, total_risk, risk_result, history, predictVars,
                   loadVars>>

\* predictions = predict_all_players(players); with players = None the
\* function scores a freshly generated list
PredictAllPlayers ==
    /\ pc \in {"idle", "risk_done"}
    /\ \E generated \in SyntheticLists :
          predictions' = predict_all_players(IF players = None THEN generated
                                             ELSE players[1])
    /\ UNCHANGED <<extVars, constVars, riskVars, players, loadVars, pc>>

NextEngine == ChooseArgs \/ CalculateInjuryRisk \/ PredictAllPlayers

SpecEngine == InitEngine /\ [][NextEngine]_vars

(***************************************************************************)
(* get_team_risk_summary(predictions)                                      *)
(***************************************************************************)
\* risk_levels after the first loop over the predictions
RiskLevelCounts(preds) ==
    [level \in {"critical", "high", "moderate", "low"} |->
        Cardinality({ i \in 1..Len(preds) : preds[i].risk_level = level })]

RECURSIVE TotalRiskScore(_)
\* total_risk after the first loop, in tenths
TotalRiskScore(preds) ==
    IF preds = <<>> THEN 0
    ELSE Head(preds).risk_score + TotalRiskScore(Tail(preds))

RECURSIVE AllFactors(_)
\* all_factors: the factor names of every prediction, in scanning order
AllFactors(preds) ==
    IF preds = <<>> THEN <<>>
    ELSE LET fs == Get(Head(preds), "risk_factors", <<>>)
         IN  [i \in 1..Len(fs) |-> fs[i].factor] \o AllFactors(Tail(preds))

\* factor_counts[f] = factor_counts.get(f, 0) + 1, on a dict kept as the
\* list of its items in insertion order
CountFactor(counts, f) ==
    IF \E i \in 1..Len(counts) : counts[i].factor = f
    THEN [i \in 1..Len(counts) |->
             IF counts[i].factor = f
             THEN [counts[i] EXCEPT !.affected_players = @ + 1]
             ELSE counts[i]]
    ELSE Append(counts, [factor |-> f, affected_players |-> 1])

RECURSIVE FactorCounts(_, _)
\* factor_counts.items() after the first n names of all_factors
FactorCounts(names, n) ==
    IF n = 0 THEN <<>>
    ELSE CountFactor(FactorCounts(names, n - 1), names[n])

\* the slice [:k] of a list
Take(list, k) == SubSeq(list, 1, Min(k, Len(list)))

\* TopFactors that keeps every factor
TopFactorsUncut(preds) ==
    LET names == AllFactors(preds)
        items == FactorCounts(names, Len(names))
    IN  SortDesc(items, [i \in 1..Len(items) |-> items[i].affected_players])

\* sorted(factor_counts.items(), key=count, reverse=True)[:5]
TopFactors(preds) ==
    LET names == AllFactors(preds)
        items == FactorCounts(names, Len(names))
    IN  Take(SortDesc(items,
                      [i \in 1..Len(items) |-> items[i].affected_players]),
             5)

\* TeamHealthStatus that reports "CAUTION" from 2 athletes at level "high"
TeamHealthStatusFromTwo(risk_levels) ==
    IF risk_levels["critical"] > 0 THEN "ALERT"
    ELSE IF risk_levels["high"] >= 2 THEN "CAUTION"
    ELSE "GOOD"

\* team_health_status
TeamHealthStatus(risk_levels) ==
    IF risk_levels["critical"] > 0 THEN "ALERT"
    ELSE IF risk_levels["high"] > 2 THEN "CAUTION"
    ELSE "GOOD"

\* the value returned; tie is the direction in which round(avg_risk, 1)
\* rounds an average half way between two tenths
get_team_risk_summary(preds, tie) ==
    IF preds = <<>> THEN [error |-> "No predictions available"]
    ELSE LET risk_levels == RiskLevelCounts(preds)
         IN  [total_players |-> Len(preds),
              average_risk_score |->
                  Round1(TotalRiskScore(preds), 10 * Len(preds), tie),
              risk_distribution |-> risk_levels,
              players_at_critical_risk |-> risk_levels["critical"],
              players_at_high_risk |-> risk_levels["high"],
              top_risk_factors |-> TopFactors(preds),
              team_health_status |-> TeamHealthStatus(risk_levels)]

(***************************************************************************)
(* Specification of one call of get_team_risk_summary                      *)
(***************************************************************************)
\* longest list of predictions passed to get_team_risk_summary
MaxPredictions == 3

\* the athletes whose predictions are summarised: no metrics (low, no
\* factor), the scenario athlete (moderate, seven factors), an overloaded
\* athlete of 45 (critical), an overloaded athlete without age (high), one
\* with many sprints, one with a recent injury and many sprints
SummaryAthletes ==
    { [name |-> "Toni Lopez", metrics |-> <<>>],
      [name |-> "Jude Moore", age |-> 32, metrics |-> ScenarioMetrics],
      [name |-> "Phil Brown", age |-> 45,
       metrics |-> [weekly_training_minutes |-> 1200,
                    high_intensity_percentage |-> 100,
                    rest_days_last_week |-> 1, fatigue_score |-> 8]],
      [name |-> "Dani Ruiz",
       metrics |-> [weekly_training_minutes |-> 1200,
                    high_intensity_percentage |-> 100,
                    rest_days_last_week |-> 0]],
      [name |-> "Alex Kane", metrics |-> [sprint_count_weekly |-> 60]],
      [name |-> "Sam Reyes",
       metrics |-> [days_since_last_injury |-> 29,
                    sprint_count_weekly |-> 60]] }

\* the prediction of each athlete, as predict_all_players builds it
SummaryPredictions == { PredictionOf(a) : a \in SummaryAthletes }

SummaryInputs ==
    UNION { [1..n -> SummaryPredictions] : n \in 0..MaxPredictions }

InitSummary ==
    /\ InitConstants
    /\ InitExt
    /\ player_metrics = <<>>
    /\ age = <<>>
    /\ total_risk = NoTotal
    /\ risk_result = NoResult
    /\ history = <<>>
    /\ players = None
    /\ predictions \in SummaryInputs
    /\ results = <<>>
    /\ days = 7
    /\ load_score = <<>>
    /\ load_response = NoResponse
    /\ pc = "summary_call"

\* summary = get_team_risk_summary(predictions)
GetTeamRiskSummary ==
    /\ pc = "summary_call"
    /\ \E tie \in {0, 1} :
          summary' = get_team_risk_summary(predictions, tie)
    /\ pc' = "summary_done"
    /\ UNCHANGED <<constVars, riskVars, predictVars, loadVars, insights,
                   apiVars>>

NextSummary == GetTeamRiskSummary

SpecSummary == InitSummary /\ [][NextSummary]_vars

(***************************************************************************)
(* get_insights: one row per player with sessions in the window.  avg_hr   *)
(* is AVG(avg_heart_rate) in tenths of a beat, or None when no session of  *)
(* the player has statistics; Player.age is None without a birth date.     *)
(***************************************************************************)
\* the entries the loop appends for one row
RecoveryEntries(result) ==
    LET total_mins == OrZero(result.total_minutes)
        avg_hr     == OrZero(result.avg_hr)
    IN  IF total_mins > 1200
        THEN << [player_name |-> result.Player.name,
                 reason |-> "High training volume detected",
                 action |-> "Schedule 2 rest days this week",
                 priority |-> "high"] >>
        ELSE IF avg_hr > 1650
        THEN << [player_name |-> result.Player.name,
                 reason |-> "Elevated average heart rate",
                 action |-> "Focus on low-intensity recovery sessions",
                 priority |-> "medium"] >>
        ELSE <<>>

\* player.age and player.age > 30 and total_mins > 1000
InjuryPreventionEntries(result) ==
    LET total_mins == OrZero(result.total_minutes)
        player_age == result.Player.age
    IN  IF player_age # None /\ player_age[1] # 0 /\ player_age[1] > 30
           /\ total_mins > 1000
        THEN << [player_name |-> result.Player.name,
                 risk_factor |-> "Age + High workload combination",
                 prevention |->
                     "Implement additional stretching and mobility work",
                 priority |-> "high"] >>
        ELSE <<>>

\* WorkloadEntries that takes every volume under 1400 minutes for low
WorkloadEntriesBelow1400(result) ==
    IF OrZero(result.total_minutes) < 1400
    THEN << [player_name |-> result.Player.name,
             current_load |-> "Below optimal",
             recommendation |->
                 "Gradually increase training volume by 10-15%",
             target_minutes |-> 600] >>
    ELSE <<>>

\* if total_mins < 400
WorkloadEntries(result) ==
    IF OrZero(result.total_minutes) < 400
    THEN << [player_name |-> result.Player.name,
             current_load |-> "Below optimal",
             recommendation |->
                 "Gradually increase training volume by 10-15%",
             target_minutes |-> 600] >>
    ELSE <<>>

\* needs_recovery after the loop: incremented in the high-volume branch only
NeedsRecovery(rows) ==
    Cardinality({ i \in 1..Len(rows) :
                     OrZero(rows[i].total_minutes) > 1200 })

\* optimal_load after the loop: incremented in the else branch
OptimalLoad(rows) ==
    Cardinality({ i \in 1..Len(rows) :
                     /\ ~(OrZero(rows[i].total_minutes) > 1200)
                     /\ ~(OrZero(rows[i].avg_hr) > 1650) })

RECURSIVE Flatten(_)
\* the list the loop builds by appending the entries of each row in turn
Flatten(entries) ==
    IF entries = <<>> THEN <<>>
    ELSE Head(entries) \o Flatten(Tail(entries))

\* RecoveryPercentage without the guard total_players > 0: the quotient of an
\* empty result is left undefined, here -1
RecoveryPercentageUnguarded(needs_recovery, total_players, tie) ==
    IF total_players > 0
    THEN Round1(needs_recovery * 100, total_players, tie)
    ELSE -1

\* round((needs_recovery / total_players * 100) if total_players > 0 else 0,
\* 1), in tenths of a percent
RecoveryPercentage(needs_recovery, total_players, tie) ==
    IF total_players > 0
    THEN Round1(needs_recovery * 100, total_players, tie)
    ELSE 0

\* the response of get_insights for the rows of the query
get_insights(rows, d, tie) ==
    [status_code |-> 200,
     recovery_recommendations |->
         Flatten([i \in 1..Len(rows) |-> RecoveryEntries(rows[i])]),
     injury_prevention |->
         Flatten([i \in 1..Len(rows) |-> InjuryPreventionEntries(rows[i])]),
     workload_optimization |->
         Flatten([i \in 1..Len(rows) |-> WorkloadEntries(rows[i])]),
     summary |->
         [total_players_analyzed |-> Len(rows),
          players_needing_recovery |-> NeedsRecovery(rows),
          players_optimal_load |-> OptimalLoad(rows),
          recovery_percentage |->
              RecoveryPercentage(NeedsRecovery(rows), Len(rows), tie),
          period_days |-> d]]

(***************************************************************************)
(* Specification of one insights request                                   *)
(***************************************************************************)
\* largest number of players with sessions in the window
MaxAthletes == 3

\* total minutes, average heart rate (tenths) and age of a player: every
\* combination of values on both sides of every threshold of get_insights
AthleteValsAll ==
    [total_minutes : { Some(m) : m \in {0, 350, 399, 400, 1000, 1001, 1200,
                                        1201} },
     avg_hr : {None, Some(1500), Some(1650), Some(1651), Some(1700)},
     age : {None, Some(0), Some(30), Some(31), Some(45)}]

\* the combinations used in results of more than one row
AthleteVals ==
    { [total_minutes |-> Some(1201), avg_hr |-> None, age |-> Some(31)],
      [total_minutes |-> Some(1201), avg_hr |-> Some(1700), age |-> None],
      [total_minutes |-> Some(1200), avg_hr |-> Some(1651), age |-> Some(31)],
      [total_minutes |-> Some(1200), avg_hr |-> Some(1650), age |-> Some(30)],
      [total_minutes |-> Some(1001), avg_hr |-> Some(1650), age |-> Some(31)],
      [total_minutes |-> Some(1000), avg_hr |-> None, age |-> Some(31)],
      [total_minutes |-> Some(400), avg_hr |-> Some(1500), age |-> None],
      [total_minutes |-> Some(399), avg_hr |-> Some(1651), age |-> None],
      [total_minutes |-> Some(350), avg_hr |-> None, age |-> Some(45)] }

AthleteNames == <<"Toni Lopez", "Jude Moore", "Phil Brown", "Dani Ruiz">>

\* the row of the i-th player
InsightRow(i, v) ==
    [Player |-> [id |-> i, name |-> AthleteNames[i], age |-> v.age],
     total_minutes |-> v.total_minutes,
     avg_hr |-> v.avg_hr]

InsightRows ==
    { <<InsightRow(1, v)>> : v \in AthleteValsAll }
        \cup UNION { { [i \in 1..n |-> InsightRow(i, v[i])] :
                         v \in [1..n -> AthleteVals] } : n \in 0..MaxAthletes }

InitInsights ==
    /\ InitConstants
    /\ summary = NoSummary
    /\ insights = NoResponse
    /\ users = <<>>
    /\ teams = <<>>
    /\ db_players = <<>>
    /\ training_sessions = <<>>
    /\ session_stats = <<>>
    /\ match_schedule = <<>>
    /\ tokens = {}
    /\ registered = <<>>
    /\ issued = {}
    /\ request = NoRequest
    /\ response = NoResponse
    /\ player_metrics = <<>>
    /\ age = <<>>
    /\ total_risk = NoTotal
    /\ risk_result = NoResult
    /\ history = <<>>
    /\ players = None
    /\ predictions = NoPredictions
    /\ results \in InsightRows
    /\ days \in DaysVals
    /\ load_score = <<>>
    /\ load_response = NoResponse
    /\ pc = "insights_call"

\* the request is refused by the validation of the query parameters
GetInsightsInvalid ==
    /\ pc = "insights_call"
    /\ ~ValidDays(days)
    /\ insights' = [status_code |-> 422]
    /\ pc' = "insights_done"
    /\ UNCHANGED <<constVars, riskVars, predictVars, loadVars, summary,
                   apiVars>>

\* insights = get_insights(days)
GetInsights ==
    /\ pc = "insights_call"
    /\ ValidDays(days)
    /\ \E tie \in {0, 1} : insights' = get_insights(results, days, tie)
    /\ pc' = "insights_done"
    /\ UNCHANGED <<constVars, riskVars, predictVars, loadVars, summary,
                   apiVars>>

NextInsights == GetInsights \/ GetInsightsInvalid

SpecInsights == InitInsights /\ [][NextInsights]_vars

\* the two analytics endpoints that take a window length
InitAnalytics == InitLoad \/ InitInsights
NextAnalytics ==
    GetTrainingLoad \/ GetTrainingLoadInvalid \/ GetInsights
        \/ GetInsightsInvalid
SpecAnalytics == InitAnalytics /\ [][NextAnalytics]_vars

(***************************************************************************)
(* The HTTP API: routers/auth.py, utils/auth.py, routers/players.py,       *)
(* routers/teams.py, routers/sessions.py, routers/stats.py,                *)
(* routers/schedule.py and routers/admin.py, on the tables of              *)
(* models/models.py.  A handler that raises anything but an HTTPException  *)
(* is answered with status 500 and its transaction is not committed.       *)
(* Tokens are used within their lifetime.                                  *)
(*                                                                         *)
(* The routers read User.role and Team.user_id and the admin router takes  *)
(* a body of type AdminUserUpdate.  models.py and schemas.py do not        *)
(* declare them; main.py adds the two columns to the tables at startup.    *)
(* They are modelled from their uses: role is a string that is "coach"     *)
(* unless set otherwise, user_id is the id of the user a team was created  *)
(* by, and AdminUserUpdate has the optional fields username, email,        *)
(* password, role and is_active.                                           *)
(***************************************************************************)
\* the attributes of models.Player that can be assigned; age is a hybrid
\* property with a getter only
PlayerAssignable ==
    {"id", "name", "surname", "aka", "position", "team", "team_id",
     "birth_date", "jersey_number", "photo_url", "created_at", "updated_at",
     "sessions", "team_rel"}

\* the keys of PlayerCreate.model_dump()
PlayerCreateFields ==
    {"name", "position", "team", "team_id", "age", "jersey_number",
     "photo_url"}

\* an Optional[str] that Python takes for true
Truthy(x) == x # None /\ x[1] # ""

\* an Optional[int] that Python takes for true
TruthyInt(x) == x # None /\ x[1] # 0

Error(code, detail) == [status_code |-> code, detail |-> detail]

\* the answer to a request whose handler raised an exception
InternalServerError == Error(500, "Internal Server Error")

\* the answer to a request whose handler returned None
NoContent == [status_code |-> 204]

\* the role of a user that was created without one
DefaultRole == "coach"

\* a row of users
User(id, username, email, password_hash, role) ==
    [id |-> id, username |-> username, email |-> email,
     password_hash |-> password_hash, role |-> role, is_active |-> 1]

\* a row of teams
Team(id, name, user_id) == [id |-> id, name |-> name, user_id |-> user_id]

\* a row of players
Player(id, name, position, team, team_id) ==
    [id |-> id, name |-> name, position |-> position, team |-> team,
     team_id |-> team_id]

\* the id the database gives a new row: one more than the largest id of the
\* table (the rowid of SQLite, the database of config.py's default and of
\* the tests)
NextId(table) == IF table = <<>> THEN 1 ELSE table[Len(table)].id + 1

\* db.query(...).filter(id == id).first() is not None
HasId(table, id) == \E i \in 1..Len(table) : table[i].id = id

\* db.query(...).filter(id == id).first(), as an index
RowWithId(table, id) == CHOOSE i \in 1..Len(table) : table[i].id = id

\* pwd_context.hash(password)
get_password_hash(password) == [scheme |-> "argon2", digest |-> <<password>>]

\* verify_password that accepts every password
VerifyAnyPassword(plain_password, hashed_password) ==
    hashed_password.scheme = "argon2"

\* pwd_context.verify(plain_password, hashed_password)
verify_password(plain_password, hashed_password) ==
    hashed_password.digest = <<plain_password>>

\* jwt.encode({"sub": username, "exp": ...}): signed is whether the
\* signature verifies under the secret key
create_access_token(username) == [sub |-> username, signed |-> TRUE]

\* a token that was not issued by login
ForgedToken == [sub |-> "testcoach", signed |-> FALSE]

\* db.query(User).filter(User.username == username).first(), as an index
UserNamed(username) ==
    CHOOSE i \in 1..Len(users) : users[i].username = username

ExistsUserNamed(username) ==
    \E i \in 1..Len(users) : users[i].username = username

\* db.query(User).filter(User.email == email).first() is not None; for
\* email None the filter is "email IS NULL"
ExistsUserWithEmail(email) ==
    \E i \in 1..Len(users) : users[i].email = email

\* get_current_user: the exception it raises, or None
AuthFailure(token) ==
    IF ~token.signed
    THEN Some(Error(401, "Invalid authentication credentials"))
    ELSE IF ~ExistsUserNamed(token.sub)
    THEN Some(Error(401, "User not found"))
    ELSE None

\* role.strip().lower() on the roles that occur
StripLower(role) == IF role \in {"admin", "Admin", " admin "} THEN "admin"
                    ELSE role

\* verify_admin that lets every authenticated user in
IsAdminAnyRole(current_user) == current_user.role # ""

\* verify_admin: current_user.role and
\* current_user.role.strip().lower() == "admin"
IsAdmin(current_user) ==
    current_user.role # "" /\ StripLower(current_user.role) = "admin"

\* UserResponse of a row of users
UserResponse(user) ==
    [id |-> user.id, username |-> user.username, email |-> user.email,
     is_active |-> user.is_active # 0]

\* db.query(Team).filter(Team.id == team_id,
\*                       Team.user_id == current_user.id).first() is not None
OwnsTeam(current_user, team_id) ==
    \E i \in 1..Len(teams) :
        teams[i].id = team_id /\ teams[i].user_id = current_user.id

\* the ownership filter of the player queries without the owner: the
\* player has a team
OwnsPlayerOfAnyTeam(current_user, player) ==
    player.team_id # None /\ HasId(teams, player.team_id[1])

\* the row is in db.query(Player).join(Team, Player.team_id == Team.id)
\*                 .filter(Team.user_id == current_user.id)
OwnsPlayer(current_user, player) ==
    player.team_id # None /\ OwnsTeam(current_user, player.team_id[1])

\* query.offset(skip).limit(limit).all()
OffsetLimit(rows, skip, limit) ==
    SubSeq(rows, skip + 1, Min(Len(rows), skip + limit))

\* the sessions that db.delete(player) deletes with the player, and the
\* sessions that delete_team deletes for a player: those of the player
SessionsOf(player_ids) ==
    { training_sessions[i].id :
        i \in { j \in 1..Len(training_sessions) :
                  training_sessions[j].player_id \in player_ids } }

(***************************************************************************)
(* Requests.  pc tells which clients are at work: "api" is the test client *)
(* of tests/test_api.py on an empty database, "store" the coaches of a     *)
(* database with teams and players, "admin" the administrator and the      *)
(* users of a database after startup.                                      *)
(***************************************************************************)
Serving == pc \in {"api", "store", "admin"}

Usernames == IF pc = "admin" THEN {"admin", "demo", "testcoach"}
             ELSE {"testcoach", "testuser"}
Emails == IF pc = "admin" THEN {None}
          ELSE {None, Some(""), Some("coach@example.com")}
Passwords == IF pc = "admin" THEN {"Admin1234", "Demo1234"}
             ELSE {"SecurePassword123", "WrongPassword"}

\* the passwords of the bodies of UserCreate
NewPasswords == IF pc = "admin" THEN {"Demo1234"} ELSE Passwords

\* the usernames of the bodies of UserCreate
NewUsernames == IF pc = "admin" THEN {"testcoach"} ELSE Usernames

\* valid bodies of UserCreate
UserCreateInputs == [username : NewUsernames, email : Emails,
                     password : NewPasswords]

\* bodies of POST /auth/login
LoginInputs == [username : Usernames, password : Passwords]

\* valid bodies of PlayerCreate, the fields left out being None
PlayerCreateInputs ==
    [name : {"Jane Smith"}, position : {"Midfielder"},
     team_id : {None, Some(1), Some(2)}]

\* valid bodies of PlayerUpdate; None is a field the body leaves out
PlayerUpdateInputs ==
    { [name |-> None, position |-> None, team |-> None, age |-> None],
      [name |-> Some("Updated Name"), position |-> None, team |-> None,
       age |-> None],
      [name |-> None, position |-> Some("Striker"),
       team |-> Some("First Team"), age |-> None],
      [name |-> None, position |-> None, team |-> None, age |-> Some(30)],
      [name |-> Some("Updated Name"), position |-> None, team |-> None,
       age |-> Some(30)] }

PlayerIds == {1, 3, 9999}

TeamIds == {1, 2, 3, 9999}

\* the query parameters skip, limit and team_id of GET /players
PlayersQueries ==
    IF pc = "admin"
    THEN [skip : {0}, limit : {100}, team_id : {None, Some(1)}]
    ELSE [skip : {0, 1}, limit : {100, 1}, team_id : {None, Some(0)}]
         \cup [skip : {0}, limit : {100},
               team_id : { Some(t) : t \in TeamIds }]

\* valid bodies of TeamCreate
TeamCreateInputs == [name : {"Test FC"}]

\* valid bodies of SessionCreate; the date is 2024-01-15T10:00:00
SessionCreateInputs ==
    [player_id : {1, 3, 9999}, session_date : {20240115},
     duration_minutes : {90}, session_type : {"Training"},
     notes : {Some("Practice session")}]

\* valid bodies of StatsCreate; distance_km in tenths
StatsCreateInputs ==
    [session_id : {1, 2, 9999}, distance_km : {Some(85)},
     avg_heart_rate : {Some(145)}]

\* valid bodies of MatchScheduleCreate
ScheduleCreateInputs ==
    [team_id : {None, Some(1), Some(2)}, event_type : {"match"},
     title : {"League game"}]

\* the bearer tokens a client can send
PresentableTokens == tokens \cup {ForgedToken}

\* the largest id that the database gives a row
MaxId == 3

scoringVars == <<constVars, riskVars, predictVars, loadVars, summary,
                 insights>>

\* nothing was scored
InitScoring ==
    /\ InitConstants
    /\ player_metrics = <<>>
    /\ age = <<>>
    /\ total_risk = NoTotal
    /\ risk_result = NoResult
    /\ history = <<>>
    /\ players = None
    /\ predictions = NoPredictions
    /\ results = <<>>
    /\ days = 7
    /\ load_score = <<>>
    /\ load_response = NoResponse

\* the test client on a database whose tables were just created
InitApi ==
    /\ InitScoring
    /\ InitExt
    /\ pc = "api"

\* the users that main.py's lifespan creates at startup
StartupUsers ==
    << User(1, "admin", Some("admin@dashboard.com"),
            get_password_hash("Admin1234"), "admin"),
       User(2, "demo", Some("demo@coach.com"),
            get_password_hash("Demo1234"), "coach") >>

\* POST /auth/register
Register ==
    /\ Serving
    /\ NextId(users) <= MaxId
    /\ \E user \in UserCreateInputs :
          /\ request' = [method |-> "POST", path |-> "/auth/register",
                         body |-> user]
          /\ IF ExistsUserNamed(user.username)
             THEN /\ response' = Error(400, "Username already registered")
                  /\ UNCHANGED <<users, registered>>
             ELSE IF Truthy(user.email) /\ ExistsUserWithEmail(user.email)
             THEN /\ response' = Error(400, "Email already registered")
                  /\ UNCHANGED <<users, registered>>
             ELSE IF user.email # None /\ ExistsUserWithEmail(user.email)
             THEN \* db.commit() violates the unique index on users.email
                  /\ response' = InternalServerError
                  /\ UNCHANGED <<users, registered>>
             ELSE LET user_obj ==
                          User(NextId(users), user.username, user.email,
                               get_password_hash(user.password), DefaultRole)
                  IN  /\ users' = Append(users, user_obj)
                      /\ registered' = Append(registered, user.password)
                      /\ response' = [status_code |-> 201,
                                      body |-> UserResponse(user_obj)]
    /\ UNCHANGED <<scoringVars, storeVars, tokens, issued, pc>>

\* POST /auth/login
Login ==
    /\ Serving
    /\ \E form_data \in LoginInputs :
          /\ request' = [method |-> "POST", path |-> "/auth/login",
                         body |-> form_data]
          /\ IF ~ExistsUserNamed(form_data.username)
             THEN /\ response' = Error(401, "Invalid credentials")
                  /\ UNCHANGED <<tokens, issued>>
             ELSE IF ~verify_password(
                         form_data.password,
                         users[UserNamed(form_data.username)].password_hash)
             THEN /\ response' = Error(401, "Invalid credentials")
                  /\ UNCHANGED <<tokens, issued>>
             ELSE LET user == users[UserNamed(form_data.username)]
                      access_token == create_access_token(user.username)
                  IN  /\ response' =
                            [status_code |-> 200,
                             body |-> [access_token |-> access_token,
                                       token_type |-> "bearer"]]
                      /\ tokens' = tokens \cup {access_token}
                      /\ issued' = issued \cup {<<access_token, user.id>>}
    /\ UNCHANGED <<scoringVars, users, registered, storeVars, pc>>

\* PUT /auth/me
UpdateProfile ==
    /\ Serving
    /\ \E token \in PresentableTokens, user_update \in UserCreateInputs :
          /\ request' = [method |-> "PUT", path |-> "/auth/me",
                         token |-> token, body |-> user_update]
          /\ IF AuthFailure(token) # None
             THEN /\ response' = AuthFailure(token)[1]
                  /\ UNCHANGED users
             ELSE LET me == UserNamed(token.sub)
                      current_user == users[me]
                  IN  IF /\ user_update.username # current_user.username
                         /\ ExistsUserNamed(user_update.username)
                      THEN /\ response' =
                                 Error(400, "Username already taken")
                           /\ UNCHANGED users
                      ELSE IF /\ Truthy(user_update.email)
                              /\ user_update.email # current_user.email
                              /\ ExistsUserWithEmail(user_update.email)
                      THEN /\ response' =
                                 Error(400, "Email already registered")
                           /\ UNCHANGED users
                      ELSE LET updated ==
                                   [current_user EXCEPT
                                      !.username = user_update.username,
                                      !.email =
                                          IF Truthy(user_update.email)
                                          THEN user_update.email ELSE @,
                                      !.password_hash =
                                          get_password_hash(
                                              user_update.password)]
                           IN  /\ users' = [users EXCEPT ![me] = updated]
                               /\ response' =
                                     [status_code |-> 200,
                                      body |-> UserResponse(updated)]
    /\ UNCHANGED <<scoringVars, registered, storeVars, tokens, issued, pc>>

(***************************************************************************)
(* routers/players.py                                                      *)
(***************************************************************************)
\* GET /players
GetPlayers ==
    /\ Serving
    /\ \E token \in PresentableTokens, query \in PlayersQueries :
          /\ request' = [method |-> "GET", path |-> "/players",
                         token |-> token, query |-> query]
          /\ response' =
                IF AuthFailure(token) # None THEN AuthFailure(token)[1]
                ELSE LET current_user == users[UserNamed(token.sub)]
                         own == SelectSeq(db_players,
                                    LAMBDA p : OwnsPlayer(current_user, p))
                     IN  IF current_user.role = "admin"
                         THEN Error(403, "Admins cannot access players")
                         ELSE IF TruthyInt(query.team_id)
                         THEN IF ~OwnsTeam(current_user, query.team_id[1])
                              THEN Error(403,
                                       "You don't have access to this team")
                              ELSE [status_code |-> 200,
                                    body |->
                                      OffsetLimit(
                                        SelectSeq(own,
                                          LAMBDA p :
                                            p.team_id = query.team_id),
                                        query.skip, query.limit)]
                         ELSE [status_code |-> 200,
                               body |-> OffsetLimit(own, query.skip,
                                                    query.limit)]
    /\ UNCHANGED <<scoringVars, users, registered, storeVars, tokens,
                   issued, pc>>

\* GET /players/{player_id}
GetPlayer ==
    /\ Serving
    /\ \E token \in PresentableTokens, player_id \in PlayerIds :
          /\ request' = [method |-> "GET", path |-> "/players/{player_id}",
                         token |-> token, player_id |-> player_id]
          /\ response' =
                IF AuthFailure(token) # None THEN AuthFailure(token)[1]
                ELSE LET current_user == users[UserNamed(token.sub)]
                     IN  IF /\ HasId(db_players, player_id)
                            /\ OwnsPlayer(
                                 current_user,
                                 db_players[RowWithId(db_players,
                                                      player_id)])
                         THEN [status_code |-> 200,
                               body |-> db_players[RowWithId(db_players,
                                                             player_id)]]
                         ELSE Error(404,
                                "Player not found or you don't have access")
    /\ UNCHANGED <<scoringVars, users, registered, storeVars, tokens,
                   issued, pc>>

\* POST /players.  Player(**player.model_dump()) assigns every field of
\* PlayerCreate, age among them.
CreatePlayer ==
    /\ Serving
    /\ \E token \in PresentableTokens, player \in PlayerCreateInputs :
          /\ request' = [method |-> "POST", path |-> "/players",
                         token |-> token, body |-> player]
          /\ IF AuthFailure(token) # None
             THEN /\ response' = AuthFailure(token)[1]
                  /\ UNCHANGED db_players
             ELSE IF /\ TruthyInt(player.team_id)
                     /\ ~OwnsTeam(users[UserNamed(token.sub)],
                                  player.team_id[1])
             THEN /\ response' =
                        Error(403, "You don't have access to this team")
                  /\ UNCHANGED db_players
             ELSE IF PlayerCreateFields \ PlayerAssignable # {}
             THEN /\ response' = InternalServerError
                  /\ UNCHANGED db_players
             ELSE LET db_player ==
                          Player(NextId(db_players), player.name,
                                 player.position, None, player.team_id)
                  IN  /\ NextId(db_players) <= MaxId
                      /\ db_players' = Append(db_players, db_player)
                      /\ response' = [status_code |-> 201,
                                      body |-> db_player]
    /\ UNCHANGED <<scoringVars, users, registered, teams, training_sessions,
                   session_stats, match_schedule, tokens, issued, pc>>

\* update_player: setattr(db_player, key, value) for the fields that the
\* body sets (model_dump(exclude_unset=True)), age apart
UpdatedPlayer(db_player, player) ==
    [db_player EXCEPT
       !.name = IF player.name # None THEN player.name[1] ELSE @,
       !.position = IF player.position # None THEN player.position[1]
                    ELSE @,
       !.team = IF player.team # None THEN player.team ELSE @]

\* PUT /players/{player_id}
UpdatePlayer ==
    /\ Serving
    /\ \E token \in PresentableTokens, player_id \in PlayerIds,
          player \in PlayerUpdateInputs :
          /\ request' = [method |-> "PUT", path |-> "/players/{player_id}",
                         token |-> token, player_id |-> player_id,
                         body |-> player]
          /\ IF AuthFailure(token) # None
             THEN /\ response' = AuthFailure(token)[1]
                  /\ UNCHANGED db_players
             ELSE IF ~(/\ HasId(db_players, player_id)
                       /\ OwnsPlayer(
                            users[UserNamed(token.sub)],
                            db_players[RowWithId(db_players, player_id)]))
             THEN /\ response' =
                        Error(403,
                              "Player not found or you don't have access")
                  /\ UNCHANGED db_players
             ELSE IF player.age # None /\ "age" \notin PlayerAssignable
             THEN \* setattr(db_player, "age", value) raises
                  /\ response' = InternalServerError
                  /\ UNCHANGED db_players
             ELSE LET i == RowWithId(db_players, player_id)
                      updated == UpdatedPlayer(db_players[i], player)
                  IN  /\ db_players' = [db_players EXCEPT ![i] = updated]
                      /\ response' = [status_code |-> 200,
                                      body |-> updated]
    /\ UNCHANGED <<scoringVars, users, registered, teams, training_sessions,
                   session_stats, match_schedule, tokens, issued, pc>>

\* DELETE /players/{player_id}.  db.delete(db_player) deletes the player's
\* sessions and their statistics with it (cascade="all, delete-orphan").
DeletePlayer ==
    /\ Serving
    /\ \E token \in PresentableTokens, player_id \in PlayerIds :
          /\ request' = [method |-> "DELETE",
                         path |-> "/players/{player_id}",
                         token |-> token, player_id |-> player_id]
          /\ IF AuthFailure(token) # None
             THEN /\ response' = AuthFailure(token)[1]
                  /\ UNCHANGED <<db_players, training_sessions,
                                 session_stats>>
             ELSE IF ~(/\ HasId(db_players, player_id)
                       /\ OwnsPlayer(
                            users[UserNamed(token.sub)],
                            db_players[RowWithId(db_players, player_id)]))
             THEN /\ response' =
                        Error(403,
                              "Player not found or you don't have access")
                  /\ UNCHANGED <<db_players, training_sessions,
                                 session_stats>>
             ELSE /\ db_players' =
                        SelectSeq(db_players, LAMBDA p : p.id # player_id)
                  /\ training_sessions' =
                        SelectSeq(training_sessions,
                                  LAMBDA s : s.player_id # player_id)
                  /\ session_stats' =
                        SelectSeq(session_stats,
                                  LAMBDA st : st.session_id
                                                \notin SessionsOf({player_id}))
                  /\ response' = NoContent
    /\ UNCHANGED <<scoringVars, users, registered, teams, match_schedule,
                   tokens, issued, pc>>

(***************************************************************************)
(* routers/teams.py                                                        *)
(***************************************************************************)
\* POST /teams
CreateTeam ==
    /\ Serving
    /\ NextId(teams) <= MaxId
    /\ \E token \in PresentableTokens, team \in TeamCreateInputs :
          /\ request' = [method |-> "POST", path |-> "/teams",
                         token |-> token, body |-> team]
          /\ IF AuthFailure(token) # None
             THEN /\ response' = AuthFailure(token)[1]
                  /\ UNCHANGED teams
             ELSE LET current_user == users[UserNamed(token.sub)]
                      db_team == Team(NextId(teams), team.name,
                                      current_user.id)
                  IN  /\ teams' = Append(teams, db_team)
                      /\ response' = [status_code |-> 201,
                                      body |-> [id |-> db_team.id,
                                                name |-> db_team.name]]
    /\ UNCHANGED <<scoringVars, users, registered, db_players,
                   training_sessions, session_stats, match_schedule, tokens,
                   issued, pc>>

\* the players delete_team deletes when it forgets the team's players
NoPlayersOfTeam(team_id) == {}

\* db.query(Player).filter(Player.team_id == team_id).all(), as ids
PlayersOfTeam(team_id) ==
    { db_players[i].id :
        i \in { j \in 1..Len(db_players) :
                  db_players[j].team_id = Some(team_id) } }

\* DELETE /teams/{team_id}
DeleteTeam ==
    /\ Serving
    /\ \E token \in PresentableTokens, team_id \in TeamIds :
          /\ request' = [method |-> "DELETE", path |-> "/teams/{team_id}",
                         token |-> token, team_id |-> team_id]
          /\ IF AuthFailure(token) # None
             THEN /\ response' = AuthFailure(token)[1]
                  /\ UNCHANGED storeVars
             ELSE IF ~OwnsTeam(users[UserNamed(token.sub)], team_id)
             THEN /\ response' =
                        Error(404, "Team with id {team_id} not found")
                  /\ UNCHANGED storeVars
             ELSE LET player_ids == PlayersOfTeam(team_id)
                      session_ids == SessionsOf(player_ids)
                  IN  /\ match_schedule' =
                            SelectSeq(match_schedule,
                                      LAMBDA e : e.team_id # Some(team_id))
                      /\ session_stats' =
                            SelectSeq(session_stats,
                                      LAMBDA st :
                                        st.session_id \notin session_ids)
                      /\ training_sessions' =
                            SelectSeq(training_sessions,
                                      LAMBDA s : s.player_id \notin player_ids)
                      /\ db_players' =
                            SelectSeq(db_players,
                                      LAMBDA p : p.id \notin player_ids)
                      /\ teams' = SelectSeq(teams, LAMBDA t : t.id # team_id)
                      /\ response' = NoContent
    /\ UNCHANGED <<scoringVars, users, registered, tokens, issued, pc>>

(***************************************************************************)
(* routers/sessions.py, routers/stats.py, routers/schedule.py: no          *)
(* authentication                                                          *)
(***************************************************************************)
\* create_session without its check of the player
PlayerExistsOrNot(player_id) == TRUE

\* db.query(Player).filter(Player.id == session.player_id).first()
\* is not None
PlayerExists(player_id) == HasId(db_players, player_id)

\* db.query(TrainingSession).filter(TrainingSession.id == stats.session_id)
\* .first() is not None
SessionExists(session_id) == HasId(training_sessions, session_id)

\* POST /sessions
CreateSession ==
    /\ Serving
    /\ \E session \in SessionCreateInputs :
          /\ request' = [method |-> "POST", path |-> "/sessions",
                         body |-> session]
          /\ IF ~PlayerExists(session.player_id)
             THEN /\ response' =
                        Error(404, "Player with id "
                                   \o "{session.player_id} not found")
                  /\ UNCHANGED training_sessions
             ELSE LET db_session ==
                          [id |-> NextId(training_sessions),
                           player_id |-> session.player_id,
                           session_date |-> session.session_date,
                           duration_minutes |-> session.duration_minutes,
                           session_type |-> session.session_type,
                           notes |-> session.notes]
                  IN  /\ NextId(training_sessions) <= MaxId
                      /\ training_sessions' =
                            Append(training_sessions, db_session)
                      /\ response' = [status_code |-> 201,
                                      body |-> db_session]
    /\ UNCHANGED <<scoringVars, users, registered, teams, db_players,
                   session_stats, match_schedule, tokens, issued, pc>>

\* POST /stats
CreateStats ==
    /\ Serving
    /\ \E stats \in StatsCreateInputs :
          /\ request' = [method |-> "POST", path |-> "/stats",
                         body |-> stats]
          /\ IF ~SessionExists(stats.session_id)
             THEN /\ response' =
                        Error(404, "Training session with id "
                                   \o "{stats.session_id} not found")
                  /\ UNCHANGED session_stats
             ELSE LET db_stats ==
                          [id |-> NextId(session_stats),
                           session_id |-> stats.session_id,
                           distance_km |-> stats.distance_km,
                           avg_heart_rate |-> stats.avg_heart_rate]
                  IN  /\ NextId(session_stats) <= MaxId
                      /\ session_stats' = Append(session_stats, db_stats)
                      /\ response' = [status_code |-> 201,
                                      body |-> db_stats]
    /\ UNCHANGED <<scoringVars, users, registered, teams, db_players,
                   training_sessions, match_schedule, tokens, issued, pc>>

\* POST /schedule
CreateSchedule ==
    /\ Serving
    /\ NextId(match_schedule) <= MaxId
    /\ \E schedule \in ScheduleCreateInputs :
          /\ request' = [method |-> "POST", path |-> "/schedule",
                         body |-> schedule]
          /\ LET db_schedule ==
                     [id |-> NextId(match_schedule),
                      team_id |-> schedule.team_id,
                      event_type |-> schedule.event_type,
                      title |-> schedule.title]
             IN  /\ match_schedule' = Append(match_schedule, db_schedule)
                 /\ response' = [status_code |-> 201, body |-> db_schedule]
    /\ UNCHANGED <<scoringVars, users, registered, teams, db_players,
                   training_sessions, session_stats, tokens, issued, pc>>

(***************************************************************************)
(* The store of two coaches.  After startup a second coach registered,     *)
(* the three users logged in, each coach called POST /teams/seed-demo-data *)
(* (seed_data.py: a team "PitchPerfect FC" with players, sessions with     *)
(* statistics and a schedule) and deleted all but a few of the rows.       *)
(***************************************************************************)
StoreUsers ==
    Append(StartupUsers,
           User(3, "testcoach", Some("coach@example.com"),
                get_password_hash("SecurePassword123"), DefaultRole))

StoreTeams ==
    << Team(1, "PitchPerfect FC", 2), Team(2, "PitchPerfect FC", 3) >>

StorePlayers ==
    << Player(1, "Marcus", "Forward", Some("PitchPerfect FC"), Some(1)),
       Player(2, "James", "Midfielder", Some("PitchPerfect FC"), Some(1)),
       Player(3, "Carlos", "Defender", Some("PitchPerfect FC"), Some(2)) >>

StoreSessions ==
    << [id |-> 1, player_id |-> 1, session_date |-> 20240110,
        duration_minutes |-> 75, session_type |-> "Fitness",
        notes |-> Some("Regular tactical session")],
       [id |-> 2, player_id |-> 3, session_date |-> 20240111,
        duration_minutes |-> 110, session_type |-> "Recovery",
        notes |-> Some("Regular fitness session")] >>

StoreStats ==
    << [id |-> 1, session_id |-> 1, distance_km |-> Some(72),
        avg_heart_rate |-> Some(150)],
       [id |-> 2, session_id |-> 2, distance_km |-> Some(101),
        avg_heart_rate |-> Some(133)] >>

StoreSchedule ==
    << [id |-> 1, team_id |-> Some(1), event_type |-> "match",
        title |-> "vs City Rivals"],
       [id |-> 2, team_id |-> Some(2), event_type |-> "training",
        title |-> "Team Training"] >>

InitStore ==
    /\ InitScoring
    /\ summary = NoSummary
    /\ insights = NoResponse
    /\ users = StoreUsers
    /\ registered = <<"Admin1234", "Demo1234", "SecurePassword123">>
    /\ tokens = { create_access_token(StoreUsers[i].username) : i \in 2..3 }
    /\ issued = { <<create_access_token(StoreUsers[i].username),
                    StoreUsers[i].id>> : i \in 2..3 }
    /\ teams = StoreTeams
    /\ db_players = StorePlayers
    /\ training_sessions = StoreSessions
    /\ session_stats = StoreStats
    /\ match_schedule = StoreSchedule
    /\ request = NoRequest
    /\ response = NoResponse
    /\ pc = "store"

\* the coaches work on their players
NextPlayers ==
    \/ CreateTeam
    \/ GetPlayers
    \/ GetPlayer
    \/ CreatePlayer
    \/ UpdatePlayer
    \/ DeletePlayer

SpecPlayers == InitStore /\ [][NextPlayers]_vars

\* the coaches create and delete teams; sessions and schedule entries are
\* added
NextTeams ==
    \/ CreateTeam
    \/ DeleteTeam
    \/ CreateSession
    \/ CreateSchedule

SpecTeams == InitStore /\ [][NextTeams]_vars

\* sessions and statistics are recorded, coaches delete players
NextSessions ==
    \/ CreateSession
    \/ CreateStats
    \/ DeletePlayer

SpecSessions == InitStore /\ [][NextSessions]_vars

(***************************************************************************)
(* routers/admin.py                                                        *)
(***************************************************************************)
CoachIds == {1, 2, 3, 9999}

\* bodies of AdminUserUpdate; None is a field the body leaves out
AdminUserUpdateInputs ==
    LET NoFields == [username |-> None, email |-> None, password |-> None,
                     role |-> None, is_active |-> None]
    IN  { NoFields,
          [NoFields EXCEPT !.username = Some("testcoach")],
          [NoFields EXCEPT !.role = Some("admin")],
          [NoFields EXCEPT !.role = Some("coach")] }

\* verify_admin: the exception it raises, or None
AdminFailure(token) ==
    IF AuthFailure(token) # None THEN AuthFailure(token)
    ELSE IF ~IsAdmin(users[UserNamed(token.sub)])
    THEN Some(Error(403, "Admin access required"))
    ELSE None

\* POST /admin/coaches
CreateCoach ==
    /\ Serving
    /\ NextId(users) <= MaxId
    /\ \E token \in PresentableTokens, user_data \in UserCreateInputs :
          /\ request' = [method |-> "POST", path |-> "/admin/coaches",
                         token |-> token, body |-> user_data]
          /\ IF AdminFailure(token) # None
             THEN /\ response' = AdminFailure(token)[1]
                  /\ UNCHANGED <<users, registered>>
             ELSE IF ExistsUserNamed(user_data.username)
             THEN /\ response' = Error(400, "Username already exists")
                  /\ UNCHANGED <<users, registered>>
             ELSE IF ExistsUserWithEmail(user_data.email)
             THEN /\ response' = Error(400, "Email already exists")
                  /\ UNCHANGED <<users, registered>>
             ELSE LET new_coach ==
                          User(NextId(users), user_data.username,
                               user_data.email,
                               get_password_hash(user_data.password),
                               "coach")
                  IN  /\ users' = Append(users, new_coach)
                      /\ registered' = Append(registered, user_data.password)
                      /\ response' = [status_code |-> 200,
                                      body |-> UserResponse(new_coach)]
    /\ UNCHANGED <<scoringVars, storeVars, tokens, issued, pc>>

\* CoachListResponse of a row of users
CoachListResponse(user) ==
    [id |-> user.id, username |-> user.username, email |-> user.email,
     role |-> user.role, is_active |-> user.is_active]

\* GET /admin/coaches
ListCoaches ==
    /\ Serving
    /\ \E token \in PresentableTokens :
          /\ request' = [method |-> "GET", path |-> "/admin/coaches",
                         token |-> token]
          /\ response' =
                IF AdminFailure(token) # None THEN AdminFailure(token)[1]
                ELSE LET coaches ==
                             SelectSeq(users, LAMBDA u : u.role = "coach")
                     IN  [status_code |-> 200,
                          body |-> [i \in 1..Len(coaches) |->
                                      CoachListResponse(coaches[i])]]
    /\ UNCHANGED <<scoringVars, users, registered, storeVars, tokens,
                   issued, pc>>

\* db.query(User).filter(User.id == coach_id, User.role == "coach").first()
\* is not None
IsCoach(coach_id) ==
    HasId(users, coach_id) /\ users[RowWithId(users, coach_id)].role = "coach"

\* GET /admin/coaches/{coach_id}
GetCoach ==
    /\ Serving
    /\ \E token \in PresentableTokens, coach_id \in CoachIds :
          /\ request' = [method |-> "GET",
                         path |-> "/admin/coaches/{coach_id}",
                         token |-> token, coach_id |-> coach_id]
          /\ response' =
                IF AdminFailure(token) # None THEN AdminFailure(token)[1]
                ELSE IF ~IsCoach(coach_id)
                THEN Error(404, "Coach not found")
                ELSE [status_code |-> 200,
                      body |-> UserResponse(
                                 users[RowWithId(users, coach_id)])]
    /\ UNCHANGED <<scoringVars, users, registered, storeVars, tokens,
                   issued, pc>>

\* PUT /admin/coaches/{coach_id}
UpdateCoach ==
    /\ Serving
    /\ \E token \in PresentableTokens, coach_id \in CoachIds,
          update_data \in AdminUserUpdateInputs :
          /\ request' = [method |-> "PUT",
                         path |-> "/admin/coaches/{coach_id}",
                         token |-> token, coach_id |-> coach_id,
                         body |-> update_data]
          /\ IF AdminFailure(token) # None
             THEN /\ response' = AdminFailure(token)[1]
                  /\ UNCHANGED users
             ELSE IF ~HasId(users, coach_id)
             THEN /\ response' = Error(404, "Coach not found")
                  /\ UNCHANGED users
             ELSE LET i == RowWithId(users, coach_id)
                      coach == users[i]
                  IN  IF /\ Truthy(update_data.username)
                         /\ update_data.username[1] # coach.username
                         /\ ExistsUserNamed(update_data.username[1])
                      THEN /\ response' =
                                 Error(400, "Username already taken")
                           /\ UNCHANGED users
                      ELSE IF /\ Truthy(update_data.email)
                              /\ update_data.email # coach.email
                              /\ ExistsUserWithEmail(update_data.email)
                      THEN /\ response' =
                                 Error(400, "Email already registered")
                           /\ UNCHANGED users
                      ELSE LET updated ==
                                   [coach EXCEPT
                                      !.username =
                                          IF Truthy(update_data.username)
                                          THEN update_data.username[1]
                                          ELSE @,
                                      !.email =
                                          IF Truthy(update_data.email)
                                          THEN update_data.email ELSE @,
                                      !.password_hash =
                                          IF Truthy(update_data.password)
                                          THEN get_password_hash(
                                                 update_data.password[1])
                                          ELSE @,
                                      !.role =
                                          IF Truthy(update_data.role)
                                          THEN update_data.role[1] ELSE @,
                                      !.is_active =
                                          IF update_data.is_active # None
                                          THEN IF update_data.is_active[1]
                                               THEN 1 ELSE 0
                                          ELSE @]
                           IN  /\ users' = [users EXCEPT ![i] = updated]
                               /\ response' =
                                     [status_code |-> 200,
                                      body |-> UserResponse(updated)]
    /\ UNCHANGED <<scoringVars, registered, storeVars, tokens, issued, pc>>

\* DELETE /admin/coaches/{coach_id}.  db.delete(coach) deletes the row of
\* users; no relationship of models.User cascades to the coach's teams.
DeleteCoach ==
    /\ Serving
    /\ \E token \in PresentableTokens, coach_id \in CoachIds :
          /\ request' = [method |-> "DELETE",
                         path |-> "/admin/coaches/{coach_id}",
                         token |-> token, coach_id |-> coach_id]
          /\ IF AdminFailure(token) # None
             THEN /\ response' = AdminFailure(token)[1]
                  /\ UNCHANGED <<users, registered>>
             ELSE IF ~HasId(users, coach_id)
             THEN /\ response' = Error(404, "Coach not found")
                  /\ UNCHANGED <<users, registered>>
             ELSE LET i == RowWithId(users, coach_id)
                  IN  /\ users' = SelectSeq(users, LAMBDA u : u.id # coach_id)
                      /\ registered' =
                            [j \in 1..(Len(users) - 1) |->
                               IF j < i THEN registered[j]
                               ELSE registered[j + 1]]
                      /\ response' = NoContent
    /\ UNCHANGED <<scoringVars, storeVars, tokens, issued, pc>>

(***************************************************************************)
(* The database after startup, with one team of the demo coach; the        *)
(* administrator and the users send requests.                              *)
(***************************************************************************)
InitAdmin ==
    /\ InitScoring
    /\ summary = NoSummary
    /\ insights = NoResponse
    /\ users = StartupUsers
    /\ registered = <<"Admin1234", "Demo1234">>
    /\ tokens = {}
    /\ issued = {}
    /\ teams = <<StoreTeams[1]>>
    /\ db_players = SubSeq(StorePlayers, 1, 2)
    /\ training_sessions = <<StoreSessions[1]>>
    /\ session_stats = <<StoreStats[1]>>
    /\ match_schedule = <<StoreSchedule[1]>>
    /\ request = NoRequest
    /\ response = NoResponse
    /\ pc = "admin"

NextAdmin ==
    \/ Register
    \/ Login
    \/ UpdateProfile
    \/ CreateCoach
    \/ ListCoaches
    \/ GetCoach
    \/ UpdateCoach
    \/ DeleteCoach
    \/ GetPlayers
    \/ CreatePlayer

SpecAdmin == InitAdmin /\ [][NextAdmin]_vars

NextApi == Register \/ Login \/ UpdateProfile \/ CreatePlayer \/ GetPlayer

SpecApi == InitApi /\ [][NextApi]_vars

(***************************************************************************)
(* Properties of the risk scorer                                           *)
(***************************************************************************)
RiskDone == pc = "risk_done"
LoadDone == pc = "load_done" /\ load_response.status_code = 200

\* the metrics the scorer works with: the value of the key or its default
WeeklyMinutes == Get(player_metrics, "weekly_training_minutes", 400)
IntensityPct  == Get(player_metrics, "high_intensity_percentage", 30)
RestDays      == Get(player_metrics, "rest_days_last_week", 2)
PrevInjuries  == Get(player_metrics, "previous_injuries_count", 0)
DaysSince     == Get(player_metrics, "days_since_last_injury", 365)
Fatigue       == Get(player_metrics, "fatigue_score", 5)
Sprints       == Get(player_metrics, "sprint_count_weekly", 30)

FactorNames(res) ==
    {res.risk_factors[k].factor : k \in 1..Len(res.risk_factors)}

RECURSIVE SumContributions(_)
SumContributions(fs) ==
    IF fs = <<>> THEN 0 ELSE Head(fs).contribution + SumContributions(Tail(fs))

\* C1: for every valid input the risk score of calculate_injury_risk and the
\* load score of the training-load endpoint lie in [0, 100], both as computed
\* and as reported.
C1_ScoresInRange ==
    /\ RiskDone =>
          /\ total_risk >= 0 /\ total_risk <= 10000
          /\ risk_result.risk_score >= 0 /\ risk_result.risk_score <= 1000
    /\ LoadDone =>
          /\ \A i \in 1..Len(load_score) :
                /\ load_score[i][1] >= 0
                /\ load_score[i][1] <= 100 * load_score[i][2]
          /\ \A k \in 1..Len(load_response.players) :
                /\ load_response.players[k].load_score >= 0
                /\ load_response.players[k].load_score <= 1000

\* the factors of a call add up to more than 100 and the total is capped
C1_Witness ==
    /\ RiskDone
    /\ SumContributions(risk_result.risk_factors) > 1000
    /\ risk_result.risk_score = 1000

\* C2: the level is the first match of total >= 70 "critical", >= 50 "high",
\* >= 30 "moderate", else "low", and the recommendation is the one of the
\* level.
C2_LevelThresholds ==
    RiskDone =>
      /\ (risk_result.risk_level = "critical") = (total_risk >= 7000)
      /\ (risk_result.risk_level = "high") =
             (total_risk >= 5000 /\ total_risk < 7000)
      /\ (risk_result.risk_level = "moderate") =
             (total_risk >= 3000 /\ total_risk < 5000)
      /\ (risk_result.risk_level = "low") = (total_risk < 3000)
      /\ risk_result.recommendation =
            CASE risk_result.risk_level = "critical" ->
                   "IMMEDIATE REST REQUIRED - High probability of injury within 7 days"
              [] risk_result.risk_level = "high" ->
                   "Reduce training intensity by 40% and add extra rest day"
              [] risk_result.risk_level = "moderate" ->
                   "Monitor closely and consider reducing high-intensity work"
              [] OTHER ->
                   "Continue current training plan - athlete is in good condition"

\* a total of exactly 70 classified as critical
C2_Witness ==
    RiskDone /\ total_risk = 7000 /\ risk_result.risk_level = "critical"

\* the documented scenario
IsScenario ==
    /\ player_metrics = ScenarioMetrics
    /\ age = <<32>>

CeilingOf(name) ==
    CASE name = "High Training Load"      -> 250
      [] name = "High Intensity Overload" -> 200
      [] name = "Insufficient Recovery"   -> 200
      [] name = "Age-Related Risk"        -> 150
      [] name = "Injury History"          -> 150
      [] name = "Recent Injury"           -> 150
      [] name = "Accumulated Fatigue"     -> 150
      [] name = "Sprint Overload"         -> 100

\* C3: a factor is listed exactly when its trigger holds strictly, its
\* contribution is at most its ceiling, and the documented
\* scenario gives 5, 8, 10, 4, 8, 5, 3, total 43, "moderate".
C3_FactorTriggers ==
    RiskDone =>
      LET names == FactorNames(risk_result)
          fs    == risk_result.risk_factors
      IN  /\ ("High Training Load" \in names) = (WeeklyMinutes > 600)
          /\ ("High Intensity Overload" \in names) = (IntensityPct > 40)
          /\ ("Insufficient Recovery" \in names) = (RestDays < 2)
          /\ ("Age-Related Risk" \in names) = (AgeArg(age) > 30)
          /\ ("Injury History" \in names) = (PrevInjuries > 0)
          /\ ("Recent Injury" \in names) = (DaysSince < 30)
          /\ ("Accumulated Fatigue" \in names) = (Fatigue > 7)
          /\ ("Sprint Overload" \in names) = (Sprints > 50)
          /\ \A k \in 1..Len(fs) :
                fs[k].contribution <= CeilingOf(fs[k].factor)
          /\ IsScenario =>
                /\ [k \in 1..Len(fs) |-> fs[k].contribution]
                     = <<50, 80, 100, 40, 80, 50, 30>>
                /\ "Recent Injury" \notin names
                /\ risk_result.risk_score = 430
                /\ risk_result.risk_level = "moderate"

\* the documented scenario has been scored
C3_Witness == RiskDone /\ IsScenario /\ Len(risk_result.risk_factors) = 7

FactorPosition(name) ==
    CASE name = "High Training Load"      -> 1
      [] name = "High Intensity Overload" -> 2
      [] name = "Insufficient Recovery"   -> 3
      [] name = "Age-Related Risk"        -> 4
      [] name = "Injury History"          -> 5
      [] name = "Recent Injury"           -> 6
      [] name = "Accumulated Fatigue"     -> 7
      [] name = "Sprint Overload"         -> 8

\* C4: risk_score = min(100, sum of the listed contributions), and the
\* entries are listed in the evaluation order 1..8 whatever their size.
C4_ScoreIsSumInOrder ==
    RiskDone =>
      LET fs == risk_result.risk_factors
      IN  /\ risk_result.risk_score = Min(1000, SumContributions(fs))
          /\ \A k, l \in 1..Len(fs) :
                k < l => FactorPosition(fs[k].factor)
                           < FactorPosition(fs[l].factor)

\* eight factors, a smaller contribution listed before a larger one, and a
\* sum above 100
C4_Witness ==
    /\ RiskDone
    /\ Len(risk_result.risk_factors) = 8
    /\ risk_result.risk_factors[1].contribution
         < risk_result.risk_factors[2].contribution
    /\ SumContributions(risk_result.risk_factors) > 1000

\* a result with score 0, level "low" and no factors
IsZeroResult(res) ==
    /\ res.risk_score = 0
    /\ res.risk_level = "low"
    /\ res.risk_factors = <<>>

\* a player dict with no metrics (or empty metrics) and no age (or age 25)
IsSparsePlayer(player) ==
    /\ Get(player, "metrics", <<>>) = <<>>
    /\ Get(player, "age", 25) = 25

\* C5: with every optional metric missing and age missing or 25,
\* calculate_injury_risk and predict_all_players return risk_score 0, level
\* "low" and no risk factors.
C5_SparseRecordScoresZero ==
    /\ (RiskDone /\ player_metrics = <<>> /\ AgeArg(age) = 25) =>
          IsZeroResult(risk_result)
    /\ (players # None /\ predictions # NoPredictions) =>
          \A i \in 1..Len(players[1]) :
             IsSparsePlayer(players[1][i]) =>
                \E k \in 1..Len(predictions) :
                   /\ predictions[k].player_id = GetOpt(players[1][i], "id")
                   /\ IsZeroResult(predictions[k])

\* a sparse record has been scored directly and as part of a list that also
\* holds a player with metrics
C5_Witness ==
    /\ RiskDone /\ player_metrics = <<>> /\ age = <<>>
    /\ players # None /\ predictions # NoPredictions
    /\ \E i, j \in 1..Len(players[1]) :
          /\ IsSparsePlayer(players[1][i])
          /\ ~IsSparsePlayer(players[1][j])

(***************************************************************************)
(* Properties of the training-load endpoint                                *)
(***************************************************************************)
\* the entry of the response for row i of the query
LoadEntry(i) ==
    CHOOSE e \in {load_response.players[k] :
                     k \in 1..Len(load_response.players)} :
        e.player_id = results[i].id

\* total_duration_minutes of row i, a missing sum counted as 0
TotalMinutes(i) ==
    IF results[i].total_minutes = None THEN 0 ELSE results[i].total_minutes[1]

\* C6: load_score = clamp(0, 100, total_minutes / (days * 90) * 100), and 630
\* minutes over 7 days give exactly 100.
C6_LoadScoreFormula ==
    LoadDone =>
      \A i \in 1..Len(results) :
         LET num == TotalMinutes(i) * 100
             den == days * 90
             s   == load_score[i]
         IN  /\ num < 0 => s[1] = 0
             /\ num > 100 * den => s[1] = 100 * s[2]
             /\ (num >= 0 /\ num <= 100 * den) => s[1] * den = num * s[2]
             /\ (TotalMinutes(i) = 630 /\ days = 7) =>
                   /\ s[1] = 100 * s[2]
                   /\ LoadEntry(i).load_score = 1000

\* 630 minutes over 7 days next to a total that is clamped
C6_Witness ==
    /\ LoadDone /\ days = 7 /\ Len(results) = 2
    /\ TotalMinutes(1) = 630 /\ TotalMinutes(2) = 1000

\* C7: status is "warning" for score > 85, else "optimal" for score > 70,
\* else "moderate" for score > 50, else "low"; a score of exactly 85, 70 or
\* 50 is in the lower band, a missing duration gives "low".
C7_LoadStatusBands ==
    LoadDone =>
      \A i \in 1..Len(results) :
         LET num == TotalMinutes(i) * 100
             den == days * 90
             e   == LoadEntry(i)
         IN  /\ (e.status = "warning") = (num > 85 * den)
             /\ (e.status = "optimal") = (num > 70 * den /\ num <= 85 * den)
             /\ (e.status = "moderate") = (num > 50 * den /\ num <= 70 * den)
             /\ (e.status = "low") = (num <= 50 * den)
             /\ (e.status = "warning") =
                   (e.recommendation = "High load - Consider rest day")
             /\ results[i].total_minutes = None => e.status = "low"

\* scores of exactly 85 and exactly 50 in one response
C7_Witness ==
    /\ LoadDone /\ days = 8 /\ Len(results) = 2
    /\ TotalMinutes(1) = 612 /\ LoadEntry(1).status = "optimal"
    /\ results[2].total_minutes = None /\ LoadEntry(2).status = "low"

\* C8: for fixed days, a larger total never has a smaller load score, neither
\* as computed nor as reported after rounding.
C8_LoadMonotone ==
    LoadDone =>
      \A i, j \in 1..Len(results) :
         TotalMinutes(i) <= TotalMinutes(j) =>
            /\ load_score[i][1] * load_score[j][2]
                 <= load_score[j][1] * load_score[i][2]
            /\ LoadEntry(i).load_score <= LoadEntry(j).load_score

\* two different totals, the larger one clamped
C8_Witness ==
    /\ LoadDone /\ days = 7 /\ Len(results) = 2
    /\ TotalMinutes(1) = 1000 /\ TotalMinutes(2) = 536
    /\ LoadEntry(2).load_score < LoadEntry(1).load_score

(***************************************************************************)
(* Properties of repeated scoring and of the ranking                       *)
(***************************************************************************)
\* the part of a prediction that calculate_injury_risk returned
ScoringPart(p) ==
    [risk_score |-> p.risk_score, risk_level |-> p.risk_level,
     recommendation |-> p.recommendation, risk_factors |-> p.risk_factors,
     metrics_analyzed |-> p.metrics_analyzed]

\* calls with identical arguments returned identical results, whether made
\* directly or by predict_all_players
SameInputSameResult ==
    /\ \A i, j \in 1..Len(history) :
          (/\ history[i].player_metrics = history[j].player_metrics
           /\ AgeArg(history[i].age) = AgeArg(history[j].age))
             => history[i].result = history[j].result
    /\ (players # None /\ predictions # NoPredictions) =>
          \A i \in 1..Len(history), n \in 1..Len(players[1]),
             k \in 1..Len(predictions) :
             (/\ "id" \in DOMAIN players[1][n]
              /\ predictions[k].player_id = Some(players[1][n].id)
              /\ history[i].player_metrics
                   = Get(players[1][n], "metrics", <<>>)
              /\ AgeArg(history[i].age) = Get(players[1][n], "age", 25))
                => ScoringPart(predictions[k]) = history[i].result

\* a step leaves the module constants and the list of players as they were,
\* and a scoring call leaves its arguments as they were
InputsUntouched ==
    /\ THRESHOLDS' = THRESHOLDS
    /\ MODEL_WEIGHTS' = MODEL_WEIGHTS
    /\ DEMO_PLAYERS' = DEMO_PLAYERS
    /\ players' = players
    /\ pc = "risk_call" => (player_metrics' = player_metrics /\ age' = age)

\* C9: scoring is a pure function of its input: calls with identical metrics
\* and age return identical results however they are interleaved with other
\* scoring calls, and no call changes its input or the module constants.
C9_ScoringIsPure == []SameInputSameResult /\ [][InputsUntouched]_vars

\* the same athlete scored twice, with another scoring call in between
C9_Witness ==
    /\ Len(history) = 2
    /\ history[1].player_metrics = history[2].player_metrics
    /\ history[1].age = history[2].age
    /\ history[1].result.risk_score > 0
    /\ players # None /\ predictions # NoPredictions
    /\ \E k \in 1..Len(predictions) :
          ScoringPart(predictions[k]) = history[1].result

\* the bijections of 1..n
Bijections(n) ==
    { f \in [1..n -> 1..n] : \A a, b \in 1..n : f[a] = f[b] => a = b }

\* C10: predict_all_players returns one result per input player, ordered by
\* risk_score descending, players with equal risk_score in input order.
C10_RankingStable ==
    (players # None /\ predictions # NoPredictions) =>
      LET list == players[1]
          n    == Len(list)
      IN  /\ Len(predictions) = n
          /\ \E f \in Bijections(n) :
                /\ \A k \in 1..n :
                      /\ predictions[k].player_id = GetOpt(list[f[k]], "id")
                      /\ predictions[k].player_name
                           = GetOpt(list[f[k]], "name")
                      /\ predictions[k].metrics_analyzed.weekly_training_minutes
                           = Get(Get(list[f[k]], "metrics", <<>>),
                                 "weekly_training_minutes", 400)
                /\ \A k, l \in 1..n :
                      k < l =>
                        /\ predictions[k].risk_score
                             >= predictions[l].risk_score
                        /\ predictions[k].risk_score
                             = predictions[l].risk_score => f[k] < f[l]

\* three players, two of them with the same score behind a higher one that
\* came last in the input
C10_Witness ==
    /\ players # None /\ predictions # NoPredictions
    /\ Len(predictions) = 3
    /\ predictions[1].player_id = Some(3)
    /\ predictions[2].player_id = Some(1)
    /\ predictions[3].player_id = Some(2)
    /\ predictions[2].risk_score = predictions[3].risk_score
    /\ predictions[2].risk_score = 430

(***************************************************************************)
(* Properties of the cohort summarizer                                     *)
(***************************************************************************)
SummaryDone == pc = "summary_done"

\* number of predictions at a level
PredictionsAt(level) ==
    Cardinality({ i \in 1..Len(predictions) :
                     predictions[i].risk_level = level })

\* C11: called on an empty sequence of predictions, the summarizer returns a
\* summary with total 0, every level count 0 and an empty list of top
\* factors, not an error result.
C11_EmptySummaryIsZero ==
    (SummaryDone /\ predictions = <<>>) =>
        /\ "error" \notin DOMAIN summary
        /\ "total_players" \in DOMAIN summary
        /\ summary.total_players = 0
        /\ \A level \in DOMAIN summary.risk_distribution :
              summary.risk_distribution[level] = 0
        /\ summary.top_risk_factors = <<>>

\* C13: for a non-empty list of predictions team_health_status is "ALERT"
\* when at least one prediction is "critical", otherwise "CAUTION" when more
\* than 2 predictions are "high", otherwise "GOOD"; and the counts of
\* risk_distribution add up to total_players, the number of predictions.
C13_HealthStatusAndDistribution ==
    (SummaryDone /\ predictions # <<>>) =>
        /\ summary.team_health_status =
              IF PredictionsAt("critical") >= 1 THEN "ALERT"
              ELSE IF PredictionsAt("high") > 2 THEN "CAUTION"
              ELSE "GOOD"
        /\ summary.total_players = Len(predictions)
        /\ DOMAIN summary.risk_distribution =
              {"critical", "high", "moderate", "low"}
        /\ summary.risk_distribution["critical"]
              + summary.risk_distribution["high"]
              + summary.risk_distribution["moderate"]
              + summary.risk_distribution["low"] = summary.total_players
        /\ \A level \in DOMAIN summary.risk_distribution :
              summary.risk_distribution[level] = PredictionsAt(level)

\* three predictions at level "high" and none "critical": "CAUTION"
C13_Witness ==
    /\ SummaryDone
    /\ PredictionsAt("high") = 3
    /\ PredictionsAt("critical") = 0
    /\ summary.team_health_status = "CAUTION"

\* the factor names a prediction lists
ListedBy(p) == { p.risk_factors[k].factor : k \in 1..Len(p.risk_factors) }

\* the factor names listed by some prediction
ListedFactors == UNION { ListedBy(predictions[i]) : i \in 1..Len(predictions) }

\* number of predictions that list the factor
Affected(f) ==
    Cardinality({ i \in 1..Len(predictions) : f \in ListedBy(predictions[i]) })

\* position at which the factor is first met when the predictions and their
\* factor lists are scanned in order: the prediction, then the place in it
FirstSeen(f) ==
    LET i == CHOOSE i \in 1..Len(predictions) :
                 /\ f \in ListedBy(predictions[i])
                 /\ \A j \in 1..(i - 1) : f \notin ListedBy(predictions[j])
        k == CHOOSE k \in 1..Len(predictions[i].risk_factors) :
                 /\ predictions[i].risk_factors[k].factor = f
                 /\ \A m \in 1..(k - 1) :
                       predictions[i].risk_factors[m].factor # f
    IN  <<i, k>>

Earlier(a, b) == a[1] < b[1] \/ (a[1] = b[1] /\ a[2] < b[2])

\* C14: at most 5 top risk factors are returned, each a listed factor with
\* the number of predictions that list it, in descending order of that
\* number; factors with equal numbers are in the order in which they were
\* first met; no factor left out has a higher number than one returned.
C14_TopFiveFactors ==
    (SummaryDone /\ predictions # <<>>) =>
        LET top == summary.top_risk_factors
        IN  /\ Len(top) <= 5
            /\ \A k \in 1..Len(top) :
                  /\ top[k].factor \in ListedFactors
                  /\ top[k].affected_players = Affected(top[k].factor)
            /\ \A j, k \in 1..Len(top) :
                  j < k =>
                     /\ top[j].factor # top[k].factor
                     /\ top[j].affected_players >= top[k].affected_players
                     /\ top[j].affected_players = top[k].affected_players
                           => Earlier(FirstSeen(top[j].factor),
                                      FirstSeen(top[k].factor))
            /\ \A f \in ListedFactors :
                  (\A k \in 1..Len(top) : top[k].factor # f) =>
                      /\ Len(top) = 5
                      /\ \A k \in 1..Len(top) :
                            Affected(f) <= top[k].affected_players

\* more than five factors are listed, the first of the five returned is
\* listed by more predictions than the last, two of them are listed by
\* equally many, and the second was met before the first
C14_Witness ==
    /\ SummaryDone
    /\ predictions # <<>>
    /\ Cardinality(ListedFactors) > 5
    /\ Len(summary.top_risk_factors) = 5
    /\ summary.top_risk_factors[1].affected_players
          > summary.top_risk_factors[5].affected_players
    /\ summary.top_risk_factors[2].affected_players
          = summary.top_risk_factors[3].affected_players
    /\ Earlier(FirstSeen(summary.top_risk_factors[2].factor),
               FirstSeen(summary.top_risk_factors[1].factor))

(***************************************************************************)
(* Properties of get_insights                                              *)
(***************************************************************************)
InsightsDone == pc = "insights_done" /\ insights.status_code = 200

\* the entries of a list of the response that name the player of row i
EntriesFor(list, i) ==
    { k \in 1..Len(list) : list[k].player_name = results[i].Player.name }

MinutesOf(i) == OrZero(results[i].total_minutes)
HeartRateOf(i) == OrZero(results[i].avg_hr)

\* C12 as stated: recovery_percentage is 0 when no athlete is analyzed and
\* otherwise equals players_needing_recovery / total_players_analyzed * 100,
\* and it lies in [0, 100].  (recovery_percentage is in tenths.)
C12_RecoveryPercentageExact ==
    InsightsDone =>
        LET s == insights.summary
        IN  /\ s.total_players_analyzed = 0 => s.recovery_percentage = 0
            /\ s.total_players_analyzed > 0 =>
                  s.recovery_percentage * s.total_players_analyzed
                      = s.players_needing_recovery * 1000
            /\ s.recovery_percentage >= 0
            /\ s.recovery_percentage <= 1000

\* C12, amended: recovery_percentage is 0 when no athlete is analyzed and
\* otherwise is players_needing_recovery / total_players_analyzed * 100
\* rounded to one decimal place (at most 0.05 away from the quotient), and it
\* lies in [0, 100].
C12_RecoveryPercentageRounded ==
    InsightsDone =>
        LET s == insights.summary
            diff == s.recovery_percentage * s.total_players_analyzed
                       - s.players_needing_recovery * 1000
        IN  /\ s.total_players_analyzed = 0 => s.recovery_percentage = 0
            /\ s.total_players_analyzed > 0 =>
                  /\ 2 * diff <= s.total_players_analyzed
                  /\ 2 * diff >= 0 - s.total_players_analyzed
            /\ s.recovery_percentage >= 0
            /\ s.recovery_percentage <= 1000

\* no player has sessions in the window: 0 players analyzed, 0 percent
C12_Witness ==
    /\ InsightsDone
    /\ results = <<>>
    /\ insights.summary.total_players_analyzed = 0
    /\ insights.summary.recovery_percentage = 0

\* C15: every analyzed athlete gets exactly one recovery outcome: an entry of
\* priority "high" when total minutes > 1200, an entry of priority "medium"
\* when total minutes <= 1200 and average heart rate > 165, otherwise no
\* entry and one count of optimal load; the recovery entries and
\* players_optimal_load add up to total_players_analyzed, and
\* players_needing_recovery is the number of athletes needing recovery, that
\* is, with a recovery entry.
C15_RecoveryOutcomes ==
    InsightsDone =>
        LET rec == insights.recovery_recommendations
            s   == insights.summary
        IN  /\ \A i \in 1..Len(results) :
                  IF MinutesOf(i) > 1200
                  THEN /\ Cardinality(EntriesFor(rec, i)) = 1
                       /\ \A k \in EntriesFor(rec, i) :
                             rec[k].priority = "high"
                  ELSE IF HeartRateOf(i) > 1650
                  THEN /\ Cardinality(EntriesFor(rec, i)) = 1
                       /\ \A k \in EntriesFor(rec, i) :
                             rec[k].priority = "medium"
                  ELSE EntriesFor(rec, i) = {}
            /\ s.players_optimal_load =
                  Cardinality({ i \in 1..Len(results) :
                                   EntriesFor(rec, i) = {} })
            /\ Len(rec) + s.players_optimal_load = s.total_players_analyzed
            /\ s.total_players_analyzed = Len(results)
            /\ s.players_needing_recovery =
                  Cardinality({ i \in 1..Len(results) :
                                   EntriesFor(rec, i) # {} })

\* number of the three lists in which the player of row i has an entry
BucketsOf(i) ==
    Cardinality({ name \in {"recovery_recommendations", "injury_prevention",
                            "workload_optimization"} :
                     EntriesFor(insights[name], i) # {} })

\* the number of buckets a single athlete gets: in a request over the same
\* window whose only row has the values v, the player is placed in
\* BucketsOfVals(v) lists
BucketsOfVals(v) ==
    LET r == get_insights(<<InsightRow(1, v)>>, days, 0)
    IN  Cardinality({ name \in {"recovery_recommendations",
                                "injury_prevention",
                                "workload_optimization"} :
                         r[name] # <<>> })

\* C16 as stated: for each of the counts 0, 1, 2 and 3 there is an athlete
\* whom get_insights places in exactly that many of the three buckets.
C16_ZeroToThreeBuckets ==
    \A n \in 0..3 : \E v \in AthleteValsAll : BucketsOfVals(v) = n

\* C16, amended: for each of the counts 0, 1 and 2 there is an athlete whom
\* get_insights places in exactly that many buckets, and no athlete is ever
\* placed in all three: an injury-prevention entry needs more than 1000
\* minutes and a workload-optimization entry less than 400.
C16_ZeroToTwoBuckets ==
    /\ \A n \in 0..2 : \E v \in AthleteValsAll : BucketsOfVals(v) = n
    /\ InsightsDone =>
          \A i \in 1..Len(results) :
              /\ BucketsOf(i) <= 2
              /\ ~(/\ EntriesFor(insights.injury_prevention, i) # {}
                   /\ EntriesFor(insights.workload_optimization, i) # {})

\* one response with an athlete in no bucket, one in one and one in two
C16_Witness ==
    /\ InsightsDone
    /\ \A n \in 0..2 : \E i \in 1..Len(results) : BucketsOf(i) = n

\* C17: the training-load and the insights endpoint answer a request with
\* days < 1 or days > 365 with a validation error and compute nothing, so a
\* load score (the division by days * 90) exists only for days >= 1.
C17_DaysValidated ==
    /\ pc = "load_done" =>
          IF days < 1 \/ days > 365
          THEN load_response = [status_code |-> 422] /\ load_score = <<>>
          ELSE load_response.status_code = 200
    /\ pc = "insights_done" =>
          IF days < 1 \/ days > 365
          THEN insights = [status_code |-> 422]
          ELSE insights.status_code = 200
    /\ load_score # <<>> => days >= 1

\* a request with days = 0 has been refused by one of the two endpoints
C17_Witness ==
    /\ days = 0
    /\ \/ pc = "load_done" /\ load_response.status_code = 422
       \/ pc = "insights_done" /\ insights.status_code = 422

(***************************************************************************)
(* Properties of the HTTP API                                              *)
(***************************************************************************)
\* C18: a registration whose username equals an existing user's username or
\* whose email equals an existing user's email is answered with 400 and a
\* detail containing "already registered", and adds no user; a registration
\* with a fresh username and email is answered with 201, the response has
\* no password field, and the user is added.
C18_RegisterRejectsDuplicates ==
    [][ (request'.method = "POST" /\ request'.path = "/auth/register") =>
          LET user == request'.body
          IN  IF \/ ExistsUserNamed(user.username)
                 \/ (user.email # None /\ ExistsUserWithEmail(user.email))
              THEN /\ response'.status_code = 400
                   /\ response'.detail \in {"Username already registered",
                                            "Email already registered"}
                   /\ users' = users
              ELSE /\ response'.status_code = 201
                   /\ "password" \notin DOMAIN response'.body
                   /\ Len(users') = Len(users) + 1
                   /\ users'[Len(users')].username = user.username
      ]_vars

ByAuthenticatedCoach ==
    /\ "token" \in DOMAIN request
    /\ request.token \in tokens
    /\ ExistsUserNamed(request.token.sub)

\* C20: POST /players by an authenticated coach, with or without a team_id,
\* creates the player; GET /players/{id} by the same coach (the only user)
\* is then answered with 200 and the created name; GET /players/{id} for an
\* id that was never created is answered with 404.
C20_CreatedPlayerCanBeFetched ==
    /\ (/\ request.method = "POST"
        /\ request.path = "/players"
        /\ ByAuthenticatedCoach
        /\ request.body.team_id = None) =>
            /\ response.status_code = 201
            /\ \E i \in 1..Len(db_players) :
                  /\ db_players[i].id = response.body.id
                  /\ db_players[i].name = request.body.name
    /\ (/\ request.method = "GET"
        /\ request.path = "/players/{player_id}"
        /\ ByAuthenticatedCoach) =>
            IF \E i \in 1..Len(db_players) :
                  db_players[i].id = request.player_id
            THEN Len(users) = 1 =>
                    /\ response.status_code = 200
                    /\ \E i \in 1..Len(db_players) :
                          /\ db_players[i].id = request.player_id
                          /\ db_players[i].name = response.body.name
            ELSE response.status_code = 404

(***************************************************************************)
(* Properties of the players, teams, sessions and stats routers            *)
(***************************************************************************)
\* C21: a coach can delete a player they created: POST /players by an
\* authenticated coach, without a team or for a team of the coach, creates
\* the player; DELETE /players/{id} by the coach on a player of theirs is
\* answered with 204 and removes the player; GET /players/{id} for an id
\* that no player has is answered with 404.
C21_CoachDeletesCreatedPlayer ==
    [][ /\ (/\ request'.method = "POST"
            /\ request'.path = "/players"
            /\ AuthFailure(request'.token) = None
            /\ \/ request'.body.team_id = None
               \/ OwnsTeam(users[UserNamed(request'.token.sub)],
                           request'.body.team_id[1])) =>
                /\ response'.status_code = 201
                /\ HasId(db_players', response'.body.id)
        /\ (/\ request'.method = "DELETE"
            /\ request'.path = "/players/{player_id}"
            /\ AuthFailure(request'.token) = None
            /\ HasId(db_players, request'.player_id)
            /\ OwnsPlayer(users[UserNamed(request'.token.sub)],
                          db_players[RowWithId(db_players,
                                               request'.player_id)])) =>
                /\ response'.status_code = 204
                /\ ~HasId(db_players', request'.player_id)
        /\ (/\ request'.method = "GET"
            /\ request'.path = "/players/{player_id}"
            /\ AuthFailure(request'.token) = None
            /\ ~HasId(db_players, request'.player_id)) =>
                response'.status_code = 404
      ]_vars

\* C22: PUT /players/{id} by a coach on a player of theirs is answered with
\* 200 and changes only the fields present in the body: every field that
\* the body leaves out keeps its value, and no other player is modified.
C22_UpdateChangesOnlySentFields ==
    [][ (/\ request'.method = "PUT"
         /\ request'.path = "/players/{player_id}"
         /\ AuthFailure(request'.token) = None
         /\ HasId(db_players, request'.player_id)
         /\ OwnsPlayer(users[UserNamed(request'.token.sub)],
                       db_players[RowWithId(db_players,
                                            request'.player_id)])) =>
          LET i == RowWithId(db_players, request'.player_id)
              body == request'.body
          IN  /\ response'.status_code = 200
              /\ Len(db_players') = Len(db_players)
              /\ \A j \in 1..Len(db_players) :
                    j # i => db_players'[j] = db_players[j]
              /\ db_players'[i].id = db_players[i].id
              /\ db_players'[i].team_id = db_players[i].team_id
              /\ body.name = None =>
                    db_players'[i].name = db_players[i].name
              /\ body.name # None => db_players'[i].name = body.name[1]
              /\ body.position = None =>
                    db_players'[i].position = db_players[i].position
              /\ body.position # None =>
                    db_players'[i].position = body.position[1]
              /\ body.team = None =>
                    db_players'[i].team = db_players[i].team
              /\ body.team # None => db_players'[i].team = body.team
      ]_vars

\* C23: a child record is only created under an existing parent.  POST
\* /sessions whose player_id names no player is answered with 404 and
\* stores no session, POST /stats whose session_id names no training
\* session is answered with 404 and stores no stats; with an existing
\* parent each is answered with 201, the body echoing the submitted
\* values, and the record is stored.
C23_ChildNeedsParent ==
    [][ /\ (request'.method = "POST" /\ request'.path = "/sessions") =>
              LET session == request'.body
              IN  IF \E i \in 1..Len(db_players) :
                        db_players[i].id = session.player_id
                  THEN /\ response'.status_code = 201
                       /\ \A k \in DOMAIN session :
                             response'.body[k] = session[k]
                       /\ Len(training_sessions')
                             = Len(training_sessions) + 1
                       /\ training_sessions'[Len(training_sessions')]
                             = response'.body
                  ELSE /\ response'.status_code = 404
                       /\ training_sessions' = training_sessions
        /\ (request'.method = "POST" /\ request'.path = "/stats") =>
              LET stats == request'.body
              IN  IF \E i \in 1..Len(training_sessions) :
                        training_sessions[i].id = stats.session_id
                  THEN /\ response'.status_code = 201
                       /\ \A k \in DOMAIN stats :
                             response'.body[k] = stats[k]
                       /\ Len(session_stats') = Len(session_stats) + 1
                       /\ session_stats'[Len(session_stats')]
                             = response'.body
                  ELSE /\ response'.status_code = 404
                       /\ session_stats' = session_stats
      ]_vars

\* a session has been refused for an unknown player, or stats for an
\* unknown session, after such a record has been created under an existing
\* parent
C23_Witness ==
    /\ request.method = "POST"
    /\ request.path \in {"/sessions", "/stats"}
    /\ response.status_code = 404
    /\ Len(training_sessions) > Len(StoreSessions)
    /\ Len(session_stats) > Len(StoreStats)

\* the rows of a table that do not belong to the team: the team's row, its
\* schedule entries, its players, their sessions and the stats of these
OutsideTeam(team_id) ==
    LET others == SelectSeq(db_players,
                            LAMBDA p : p.team_id # Some(team_id))
        kept == SelectSeq(training_sessions,
                          LAMBDA s : \E i \in 1..Len(others) :
                                        others[i].id = s.player_id)
    IN  [teams |-> SelectSeq(teams, LAMBDA t : t.id # team_id),
         match_schedule |->
             SelectSeq(match_schedule, LAMBDA e : e.team_id # Some(team_id)),
         db_players |-> others,
         training_sessions |-> kept,
         session_stats |->
             SelectSeq(session_stats,
                       LAMBDA st : \E i \in 1..Len(kept) :
                                      kept[i].id = st.session_id)]

\* C24: after a successful DELETE /teams/{id} by the team's owner the team,
\* its schedule entries, its players, their training sessions and the stats
\* of these sessions are gone, and the teams, schedule entries, players,
\* sessions and stats of every other team are unchanged; for a team id that
\* the caller does not own the answer is 404 and nothing is deleted.
C24_DeleteTeamDeletesItsData ==
    [][ (/\ request'.method = "DELETE"
         /\ request'.path = "/teams/{team_id}"
         /\ AuthFailure(request'.token) = None) =>
          IF \E i \in 1..Len(teams) :
                /\ teams[i].id = request'.team_id
                /\ teams[i].user_id = users[UserNamed(request'.token.sub)].id
          THEN /\ response'.status_code = 204
               /\ teams' = OutsideTeam(request'.team_id).teams
               /\ match_schedule' =
                     OutsideTeam(request'.team_id).match_schedule
               /\ db_players' = OutsideTeam(request'.team_id).db_players
               /\ training_sessions' =
                     OutsideTeam(request'.team_id).training_sessions
               /\ session_stats' =
                     OutsideTeam(request'.team_id).session_stats
          ELSE /\ response'.status_code = 404
               /\ UNCHANGED storeVars
      ]_vars

\* a coach has deleted a team with players, sessions, stats and schedule
\* entries while another team has all of these
C24_Witness ==
    /\ request.method = "DELETE"
    /\ request.path = "/teams/{team_id}"
    /\ response.status_code = 204
    /\ request.team_id = 1
    /\ ~HasId(teams, 1)
    /\ HasId(teams, 2)
    /\ \A i \in 1..Len(db_players) : db_players[i].team_id = Some(2)
    /\ Len(db_players) > 0
    /\ Len(training_sessions) > 1
    /\ Len(session_stats) > 0
    /\ Len(match_schedule) > 0

(***************************************************************************)
(* Properties of the admin router and of the accounts                      *)
(***************************************************************************)
\* C25: deleting a coach account through DELETE /admin/coaches/{id}
\* cascades: after it succeeds, no team owned by that coach and no player
\* of such a team remains in the store.
C25_DeleteCoachCascades ==
    [][ (/\ request'.method = "DELETE"
         /\ request'.path = "/admin/coaches/{coach_id}"
         /\ response'.status_code = 204) =>
          /\ \A i \in 1..Len(teams') :
                teams'[i].user_id # request'.coach_id
          /\ \A i \in 1..Len(db_players') :
                \A j \in 1..Len(teams) :
                   teams[j].user_id = request'.coach_id =>
                      db_players'[i].team_id # Some(teams[j].id)
      ]_vars

\* the team with this id is a team of the user with this id
TeamOwnedBy(team_id, user_id) ==
    \E i \in 1..Len(teams) :
        teams[i].id = team_id /\ teams[i].user_id = user_id

\* C26: coaches only see and change their own players.  GET /players
\* called by a coach returns only players whose team the coach owns; a
\* team_id filter naming a team that the coach does not own is answered
\* with 403; POST /players with a team_id that the coach does not own is
\* answered with 403 and creates nothing; GET, PUT and DELETE on a player
\* of another coach's team are refused and change nothing.
C26_CoachesSeeOwnPlayersOnly ==
    [][ ("token" \in DOMAIN request' /\ AuthFailure(request'.token) = None)
        => LET caller == users[UserNamed(request'.token.sub)].id
           IN  /\ (request'.method = "GET" /\ request'.path = "/players") =>
                     /\ response'.status_code = 200 =>
                           \A i \in 1..Len(response'.body) :
                              /\ response'.body[i].team_id # None
                              /\ TeamOwnedBy(response'.body[i].team_id[1],
                                             caller)
                     /\ (/\ request'.query.team_id # None
                         /\ request'.query.team_id[1] # 0
                         /\ ~TeamOwnedBy(request'.query.team_id[1], caller))
                           => response'.status_code = 403
               /\ (/\ request'.method = "POST"
                   /\ request'.path = "/players"
                   /\ request'.body.team_id # None
                   /\ ~TeamOwnedBy(request'.body.team_id[1], caller)) =>
                     /\ response'.status_code = 403
                     /\ db_players' = db_players
               /\ (/\ request'.path = "/players/{player_id}"
                   /\ \E i \in 1..Len(db_players) :
                         /\ db_players[i].id = request'.player_id
                         /\ \/ db_players[i].team_id = None
                            \/ ~TeamOwnedBy(db_players[i].team_id[1],
                                            caller)) =>
                     /\ response'.status_code \in {403, 404}
                     /\ db_players' = db_players
                     /\ training_sessions' = training_sessions
                     /\ session_stats' = session_stats
      ]_vars

\* a coach has been refused the deletion of a player of another coach's
\* team, after deleting a player of their own
C26_Witness ==
    /\ request.method = "DELETE"
    /\ request.path = "/players/{player_id}"
    /\ response.status_code = 403
    /\ request.token \in tokens
    /\ HasId(db_players, request.player_id)
    /\ Len(db_players) < Len(StorePlayers)

\* C27: the admin routes manage coaches only.  Every /admin/coaches
\* operation is answered with 403 for a caller whose role is not admin and
\* changes nothing; get, update and delete by id act only on users whose
\* role is "coach", and are answered with 404, changing nothing, when the
\* id is that of no user or of a user with another role.
C27_AdminRoutesManageCoachesOnly ==
    [][ (/\ request'.path \in {"/admin/coaches", "/admin/coaches/{coach_id}"}
         /\ AuthFailure(request'.token) = None) =>
          LET caller == users[UserNamed(request'.token.sub)]
          IN  IF caller.role = "coach"
              THEN /\ response'.status_code = 403
                   /\ users' = users
              ELSE (/\ request'.path = "/admin/coaches/{coach_id}"
                    /\ ~\E i \in 1..Len(users) :
                           /\ users[i].id = request'.coach_id
                           /\ users[i].role = "coach") =>
                      /\ response'.status_code = 404
                      /\ users' = users
      ]_vars

\* C28: an access token authenticates only the account it was issued to:
\* after any sequence of logins, profile updates and registrations,
\* get_current_user given a token that login issued to a user either
\* resolves to the account of that user or fails with 401, and never
\* resolves to another account.
C28_TokenAuthenticatesItsAccount ==
    \A pair \in issued :
        AuthFailure(pair[1]) = None =>
            users[UserNamed(pair[1].sub)].id = pair[2]

\* C29: no operation of a caller who is not an admin gives an account the
\* role "admin".  The role of an account changes only in a PUT
\* /admin/coaches/{id} for that account whose caller has the role admin,
\* and an account that registration or POST /admin/coaches creates is not
\* an admin.
C29_RolesChangeOnlyThroughAdmin ==
    [][ /\ \A i \in 1..Len(users) : \A j \in 1..Len(users') :
              (/\ users[i].id = users'[j].id
               /\ users[i].role # users'[j].role) =>
                  /\ request'.method = "PUT"
                  /\ request'.path = "/admin/coaches/{coach_id}"
                  /\ request'.coach_id = users[i].id
                  /\ AuthFailure(request'.token) = None
                  /\ users[UserNamed(request'.token.sub)].role = "admin"
        /\ \A j \in 1..Len(users') :
              (\A i \in 1..Len(users) : users[i].id # users'[j].id) =>
                  users'[j].role = "coach"
      ]_vars

\* an admin has given the role admin to an account that registered itself
C29_Witness ==
    /\ request.method = "PUT"
    /\ request.path = "/admin/coaches/{coach_id}"
    /\ response.status_code = 200
    /\ \E i \in 1..Len(users) :
          /\ users[i].id = request.coach_id
          /\ users[i].id > Len(StartupUsers)
          /\ users[i].role = "admin"
          /\ request.body.role = Some("admin")

(***************************************************************************)
(* Properties of the reported scores                                       *)
(***************************************************************************)
\* C30: the reported score and the reported level agree.  In every entry of
\* a training-load result the status is "warning" exactly when the reported
\* load_score, rounded to one decimal, is > 85, "optimal" when it is in
\* (70, 85], "moderate" when in (50, 70], else "low"; in every result of
\* calculate_injury_risk the risk_level is "critical" exactly when the
\* reported risk_score is >= 70, "high" when in [50, 70), "moderate" when
\* in [30, 50), else "low".  Reported scores are in tenths.
C30_ReportedScoreAndLevelAgree ==
    /\ LoadDone =>
          \A k \in 1..Len(load_response.players) :
             LET e == load_response.players[k]
             IN  /\ (e.status = "warning") = (e.load_score > 850)
                 /\ (e.status = "optimal") =
                       (e.load_score > 700 /\ e.load_score <= 850)
                 /\ (e.status = "moderate") =
                       (e.load_score > 500 /\ e.load_score <= 700)
                 /\ (e.status = "low") = (e.load_score <= 500)
    /\ RiskDone =>
          /\ (risk_result.risk_level = "critical") =
                (risk_result.risk_score >= 700)
          /\ (risk_result.risk_level = "high") =
                (risk_result.risk_score >= 500
                    /\ risk_result.risk_score < 700)
          /\ (risk_result.risk_level = "moderate") =
                (risk_result.risk_score >= 300
                    /\ risk_result.risk_score < 500)
          /\ (risk_result.risk_level = "low") =
                (risk_result.risk_score < 300)

====
